---- MODULE Spec2Model ----
(***************************************************************************)
(* Model of the hierarchical sort-and-group layout engine of               *)
(* graspologic/plot/plot.py: _get_freq_vec, _unique_like, _get_freqs,      *)
(* _sort_inds, _sort_graph and the label handling of _process_graphs.      *)
(*                                                                         *)
(* Representation.  A numpy vector is a TLA+ sequence: Python index i is   *)
(* position i + 1.  Index VALUES (the entries of a permutation, the        *)
(* entries of np.unique's return_index / return_inverse) keep Python's     *)
(* 0-based numbering.  A matrix is a sequence of rows.  An optional        *)
(* argument is None (the empty tuple) or Some(v) (the one-element tuple).  *)
(* Label values and edge weights are integers; labels compare by <.        *)
(***************************************************************************)
EXTENDS Integers, Sequences, FiniteSets, TLC

VARIABLES
    pc,                 \* position in the call sequence
    X,                  \* the graph handed in (square matrix)
    inner_hier_labels,  \* None or Some(label vector)
    outer_hier_labels,  \* None or Some(label vector)
    sort_nodes,         \* the degree-sort flag
    inner_arr,          \* _process_graphs: inner labels after lines 139-147
    outer_arr,          \* _process_graphs: outer labels after lines 139-147
    inds,               \* _sort_graph: the permutation _sort_inds returned
    sorted_graph,       \* _sort_graph: graph[inds, :][:, inds]
    resorted_inds,      \* _sort_inds applied to the sorted graph and labels
    vals,               \* input vector of _unique_like
    uniq,               \* result of _unique_like
    freqs,              \* result of _get_freqs
    P,                  \* an arbitrary permutation (symmetric reindexing)
    reindexed,          \* graph[P, :][:, P]
    restored,           \* reindexed[Pinv, :][:, Pinv]
    plot,               \* _plot_groups: what it computed and drew
    transform,          \* None or Some(method name)
    heap,               \* the array objects: object id -> contents
    arr,                \* id of the array object the callee's name is bound to
    raised,             \* the exception the call ended with, or "none"
    trace,              \* the steps the call went through, in order
    entry,              \* the entry point called
    labels,             \* the labels argument of pairplot/degreeplot/edgeplot
    direction,          \* the direction argument of degreeplot
    imported,           \* ids of the arrays import_graph returned, in order
    kwargs,             \* the arguments a call is validated on
    msg,                \* the message of the exception raised
    rc                  \* the process-wide styling state (matplotlib rcParams)

vars == <<pc, X, inner_hier_labels, outer_hier_labels, sort_nodes, inner_arr,
          outer_arr, inds, sorted_graph, resorted_inds, vals, uniq, freqs,
          P, reindexed, restored, plot, transform, heap, arr, raised, trace,
          entry, labels, direction, imported, kwargs, msg, rc>>

\* the variables of the entry-point specifications
callvars == <<transform, heap, arr, raised, trace, entry, labels, direction,
              imported, kwargs, msg, rc>>

----------------------------------------------------------------------------
(* Bounds of the model *)

MaxN == 3         \* largest number of nodes
MaxEdges == 1     \* largest total weight placed on a graph (unit edges)
MaxLen == 4       \* longest vector handed to _unique_like
MaxVal == 3       \* largest label value handed to _unique_like
MaxReindexN == 3  \* largest matrix reindexed by an arbitrary permutation
MaxReindexEdges == 2  \* largest total weight of such a matrix
MaxTN == 2        \* largest matrix handed to _transform alone
MaxTEntries == 2  \* largest number of non-zero entries of such a matrix
MaxEntryN == 2        \* largest matrix handed to an entry point
MaxEntryEntries == 1  \* largest number of non-zero entries of such a matrix

LabelValues == {1, 2}

None == << >>
Some(v) == <<v>>
Unwrap(o) == o[1]

----------------------------------------------------------------------------
(* Generic vector helpers *)

Range(s) == {s[k] : k \in 1..Len(s)}

RECURSIVE SeqSum(_)
SeqSum(s) == IF s = << >> THEN 0 ELSE Head(s) + SeqSum(Tail(s))

SetMin(S) == CHOOSE x \in S : \A y \in S : x <= y
SetMax(S) == CHOOSE x \in S : \A y \in S : x >= y

\* a[inds] : numpy fancy indexing of a vector by a vector of 0-based indices
Take(a, ix) == [k \in 1..Len(ix) |-> a[ix[k] + 1]]

\* np.arange(n)
Arange(n) == [k \in 1..n |-> k - 1]

\* np.ones_like(a)
ones_like(a) == [k \in 1..Len(a) |-> 1]

\* a.cumsum()
cumsum(a) == [k \in 1..Len(a) |-> SeqSum(SubSeq(a, 1, k))]

\* lexicographic order on equal-length tuples of integers
LexLess(a, b) ==
    \E k \in 1..Len(a) : a[k] < b[k] /\ \A j \in 1..(k - 1) : a[j] = b[j]

LexLE(a, b) == a = b \/ LexLess(a, b)

----------------------------------------------------------------------------
(* numpy / pandas primitives the module relies on *)

RECURSIVE SortedSeq(_)
\* the elements of a finite set of integers in ascending order
SortedSeq(S) ==
    IF S = {} THEN << >>
    ELSE LET m == SetMin(S) IN <<m>> \o SortedSeq(S \ {m})

\* np.unique(v, return_index=True, return_inverse=True, return_counts=True):
\* the sorted distinct values, the 0-based index of each value's first
\* occurrence, for every element the 0-based position of its value among
\* the distinct values, and the number of occurrences of each value.
np_unique(v) ==
    LET u == SortedSeq(Range(v))
    IN  [uniques |-> u,
         index   |-> [k \in 1..Len(u) |->
                        SetMin({i \in 1..Len(v) : v[i] = u[k]}) - 1],
         inverse |-> [i \in 1..Len(v) |->
                        (CHOOSE k \in 1..Len(u) : u[k] = v[i]) - 1],
         counts  |-> [k \in 1..Len(u) |->
                        Cardinality({i \in 1..Len(v) : v[i] = u[k]})]]

\* Faulty variant of Merge: on equal keys the right run wins (an unstable merge).
RECURSIVE MergeUnstable(_, _, _)
MergeUnstable(l, r, keys) ==
    IF l = << >> THEN r
    ELSE IF r = << >> THEN l
    ELSE IF LexLess(keys[Head(l) + 1], keys[Head(r) + 1])
         THEN <<Head(l)>> \o MergeUnstable(Tail(l), r, keys)
         ELSE <<Head(r)>> \o MergeUnstable(l, Tail(r), keys)

\* Faulty variant of Merge: of two rows with equal keys only the left one is kept.
RECURSIVE MergeDropTies(_, _, _)
MergeDropTies(l, r, keys) ==
    IF l = << >> THEN r
    ELSE IF r = << >> THEN l
    ELSE IF keys[Head(l) + 1] = keys[Head(r) + 1]
         THEN <<Head(l)>> \o MergeDropTies(Tail(l), Tail(r), keys)
    ELSE IF LexLess(keys[Head(l) + 1], keys[Head(r) + 1])
         THEN <<Head(l)>> \o MergeDropTies(Tail(l), r, keys)
         ELSE <<Head(r)>> \o MergeDropTies(l, Tail(r), keys)

RECURSIVE Merge(_, _, _)
\* the merge step of mergesort over row indices l, r (each already sorted):
\* the left run's row goes first unless the right one's key is smaller
Merge(l, r, keys) ==
    IF l = << >> THEN r
    ELSE IF r = << >> THEN l
    ELSE IF LexLE(keys[Head(l) + 1], keys[Head(r) + 1])
         THEN <<Head(l)>> \o Merge(Tail(l), r, keys)
         ELSE <<Head(r)>> \o Merge(l, Tail(r), keys)

RECURSIVE MergeSort(_, _)
MergeSort(s, keys) ==
    IF Len(s) <= 1 THEN s
    ELSE LET m == Len(s) \div 2
         IN  Merge(MergeSort(SubSeq(s, 1, m), keys),
                   MergeSort(SubSeq(s, m + 1, Len(s)), keys), keys)

\* DataFrame.sort_values(by=..., kind="mergesort") on a frame with the
\* default index 0..n-1; keys[i + 1] is row i's tuple of the `by` columns.
\* The value is the frame's index after sorting.
sort_values(keys) == MergeSort(Arange(Len(keys)), keys)

\* np.argsort(a).  The default kind is not stable, so the order of equal
\* entries is unspecified; the only caller passes pairwise distinct entries.
argsort(a) == MergeSort(Arange(Len(a)), [k \in 1..Len(a) |-> <<a[k]>>])

\* graph.sum(axis=1) and graph.sum(axis=0)
sum_axis1(graph) == [i \in 1..Len(graph) |-> SeqSum(graph[i])]
sum_axis0(graph) ==
    [j \in 1..Len(graph) |-> SeqSum([i \in 1..Len(graph) |-> graph[i][j]])]

\* graph[ix, :] and graph[:, ix]
TakeRows(graph, ix) == [i \in 1..Len(ix) |-> graph[ix[i] + 1]]
TakeCols(graph, ix) ==
    [i \in 1..Len(graph) |-> [j \in 1..Len(ix) |-> graph[i][ix[j] + 1]]]

----------------------------------------------------------------------------
(* The functions of plot.py *)

\* Faulty variant of _get_freq_vec: every label is given the same frequency.
FreqVecConstant(v) == [i \in 1..Len(v) |-> Len(v)]

_get_freq_vec(v) ==
    LET u == np_unique(v)
    IN  [i \in 1..Len(v) |-> u.counts[u.inverse[i] + 1]]

\* Faulty variant of _unique_like: np.unique's sorted order is kept.
UniqueSorted(v) ==
    LET u == np_unique(v) IN [uniques |-> u.uniques, counts |-> u.counts]

_unique_like(v) ==
    LET u == np_unique(v)
        inds_sort == argsort(u.index)
    IN  [uniques |-> Take(u.uniques, inds_sort),
         counts  |-> Take(u.counts, inds_sort)]

\* Faulty variant of _sort_inds: the degree key is used whatever the flag says.
SortIndsAlwaysDegree(graph, inner_labels, outer_labels, flag) ==
    LET n == Len(inner_labels)
        inner_label_counts == _get_freq_vec(inner_labels)
        outer_label_counts == _get_freq_vec(outer_labels)
        s1 == sum_axis1(graph)
        s0 == sum_axis0(graph)
        node_edgesums == [i \in 1..Len(graph) |-> s1[i] + s0[i]]
        mx == SetMax(Range(node_edgesums))
    IN  sort_values([i \in 1..n |->
            <<Len(outer_labels) - outer_label_counts[i], outer_labels[i],
              Len(inner_labels) - inner_label_counts[i], inner_labels[i],
              mx - node_edgesums[i]>>])

\* Faulty variant of _sort_inds: the inner count is taken inside the node's outer
\* group instead of over the whole vector.
SortIndsBlockCounts(graph, inner_labels, outer_labels, flag) ==
    LET n == Len(inner_labels)
        outer_label_counts == _get_freq_vec(outer_labels)
        block == [i \in 1..n |->
                    Cardinality({j \in 1..n : /\ outer_labels[j] = outer_labels[i]
                                              /\ inner_labels[j] = inner_labels[i]})]
        s1 == sum_axis1(graph)
        s0 == sum_axis0(graph)
        edgesums == [i \in 1..Len(graph) |-> s1[i] + s0[i]]
        by == [i \in 1..n |->
                 <<n - outer_label_counts[i], outer_labels[i], n - block[i],
                   inner_labels[i]>>
                 \o (IF flag THEN <<SetMax(Range(edgesums)) - edgesums[i]>>
                     ELSE << >>)]
    IN  sort_values(by)

_sort_inds(graph, inner_labels, outer_labels, flag) ==
    LET n == Len(inner_labels)
        inner_label_counts == _get_freq_vec(inner_labels)
        outer_label_counts == _get_freq_vec(outer_labels)
        inner_counts == [i \in 1..n |-> Len(inner_labels) - inner_label_counts[i]]
        outer_counts == [i \in 1..n |-> Len(outer_labels) - outer_label_counts[i]]
        s1 == sum_axis1(graph)
        s0 == sum_axis0(graph)
        edgesums == [i \in 1..Len(graph) |-> s1[i] + s0[i]]
        node_edgesums ==
            [i \in 1..Len(graph) |-> SetMax(Range(edgesums)) - edgesums[i]]
        by == [i \in 1..n |->
                 IF flag
                 THEN <<outer_counts[i], outer_labels[i], inner_counts[i],
                        inner_labels[i], node_edgesums[i]>>
                 ELSE <<outer_counts[i], outer_labels[i], inner_counts[i],
                        inner_labels[i]>>]
    IN  sort_values(by)

\* Faulty variant of Reindex: only the rows are permuted.
ReindexRowsOnly(graph, ix) == TakeRows(graph, ix)

\* Faulty variant of Reindex: only the columns are permuted.
ReindexColsOnly(graph, ix) == TakeCols(graph, ix)

RECURSIVE AssignRows(_, _, _)
AssignRows(g, ix, k) ==
    IF k > Len(ix) THEN g
    ELSE AssignRows([g EXCEPT ![k] = g[ix[k] + 1]], ix, k + 1)

\* Faulty variant of Reindex: the rows are moved one by one inside the matrix
\* itself, so a row already overwritten is read again.
ReindexInPlace(graph, ix) == TakeCols(AssignRows(graph, ix, 1), ix)

\* graph[inds, :][:, inds] (line 1513)
Reindex(graph, ix) == TakeCols(TakeRows(graph, ix), ix)

_sort_graph(graph, inner_labels, outer_labels, flag) ==
    Reindex(graph, _sort_inds(graph, inner_labels, outer_labels, flag))

RECURSIVE InnerFreqLoop(_, _, _, _)
\* lines 1525-1530: the loop over the outer segments, from segment i (0-based)
\* on, appending each segment's inner counts to inner_freq
InnerFreqLoop(inner_labels, outer_freq_cumsum, i, inner_freq) ==
    IF i >= Len(outer_freq_cumsum) - 1 THEN inner_freq
    ELSE LET start_ind == outer_freq_cumsum[i + 1]
             stop_ind == outer_freq_cumsum[i + 2]
             temp_freq ==
                 _unique_like(SubSeq(inner_labels, start_ind + 1, stop_ind)).counts
         IN  InnerFreqLoop(inner_labels, outer_freq_cumsum, i + 1,
                           inner_freq \o temp_freq)

\* Faulty variant of _get_freqs: the inner counts are taken over the whole vector.
GetFreqsGlobal(inner_labels, outer_labels) ==
    LET outer_freq == _unique_like(outer_labels).counts
        inner_freq == _unique_like(inner_labels).counts
    IN  [inner_freq |-> inner_freq,
         inner_freq_cumsum |-> <<0>> \o cumsum(inner_freq),
         outer_freq |-> outer_freq,
         outer_freq_cumsum |-> <<0>> \o cumsum(outer_freq)]

_get_freqs(inner_labels, outer_labels) ==
    LET outer_freq == _unique_like(outer_labels).counts
        outer_freq_cumsum == <<0>> \o cumsum(outer_freq)
        inner_freq == InnerFreqLoop(inner_labels, outer_freq_cumsum, 0, << >>)
    IN  [inner_freq |-> inner_freq,
         inner_freq_cumsum |-> <<0>> \o cumsum(inner_freq),
         outer_freq |-> outer_freq,
         outer_freq_cumsum |-> <<0>> \o cumsum(outer_freq)]

----------------------------------------------------------------------------
(* The bracket / group annotator *)

\* np.tile(a, k) for a vector a
tile(a, k) == [q \in 1..(Len(a) * k) |-> a[((q - 1) % Len(a)) + 1]]

\* Bracket and tick positions along an axis of the plot are held in HALVES
\* of a node, so that the centre of a group of odd size is an integer: the
\* value 2 * x stands for the position x.  Grid lines are held in nodes.

\* Faulty variant of TickLoc: the half group size is not subtracted.
TickLocAtEnd(freq) == [k \in 1..Len(freq) |-> 2 * cumsum(freq)[k]]

\* freq.cumsum() - freq / 2 (lines 1602, 1605), in halves
TickLoc(freq) == [k \in 1..Len(freq) |-> 2 * cumsum(freq)[k] - freq[k]]

\* freq / 2 (lines 1603, 1606), in halves
TickWidth(freq) == freq

\* _plot_brackets: one curve per (tick_loc, tick_width) pair, drawn over
\* linspace(x0 - width, x0 + width) (lines 1681-1688), the ticks set at
\* tick_loc and the tick labels set to group_names (lines 1694-1705)
_plot_brackets(group_names, tick_loc, tick_width, level, axis, max_size) ==
    [level |-> level,
     axis |-> axis,
     brackets |-> [k \in 1..Len(tick_loc) |->
                     <<tick_loc[k] - tick_width[k], tick_loc[k] + tick_width[k]>>],
     ticks |-> tick_loc,
     ticklabels |-> group_names,
     lim |-> <<0, 2 * max_size>>]

\* Faulty variant of Gridlines: a line is drawn at the last boundary too.
GridlinesWithLast(inner_freq_cumsum) == Tail(inner_freq_cumsum)

\* inner_freq_cumsum[1:-1] (line 1581): the positions of the dashed lines,
\* each drawn as a vertical and as a horizontal line (lines 1582-1583)
Gridlines(inner_freq_cumsum) ==
    SubSeq(inner_freq_cumsum, 2, Len(inner_freq_cumsum) - 1)

\* Faulty variant of AnnotationOrder: the labels are taken to be in plot
\* order already.
AnnotationOrderAsGiven(graph, inner_labels_arr, outer_labels_arr) ==
    Arange(Len(inner_labels_arr))

\* line 1568
AnnotationOrder(graph, inner_labels_arr, outer_labels_arr) ==
    _sort_inds(graph, inner_labels_arr, outer_labels_arr, FALSE)

\* _plot_groups(ax, graph, inner_labels, outer_labels): what it computes and
\* what it draws.  outer_labels is None or Some(vector).
_plot_groups(graph, inner_labels, outer_labels) ==
    LET plot_outer == outer_labels # None
        outer_given == IF plot_outer THEN Unwrap(outer_labels)
                       ELSE ones_like(inner_labels)
        sorted_inds == AnnotationOrder(graph, inner_labels, outer_given)
        inner_labels_arr == Take(inner_labels, sorted_inds)
        outer_labels_arr == Take(outer_given, sorted_inds)
        f == _get_freqs(inner_labels_arr, outer_labels_arr)
        inner_unique == _unique_like(inner_labels_arr).uniques
        outer_unique == _unique_like(outer_labels_arr).uniques
        n_verts == Len(graph)
        lines == Gridlines(f.inner_freq_cumsum)
        inner_names == tile(inner_unique, Len(outer_unique))
        inner_tick_loc == TickLoc(f.inner_freq)
        inner_tick_width == TickWidth(f.inner_freq)
        outer_tick_loc == TickLoc(f.outer_freq)
        outer_tick_width == TickWidth(f.outer_freq)
    IN  [sorted_inds |-> sorted_inds,
         inner_labels_arr |-> inner_labels_arr,
         outer_labels_arr |-> outer_labels_arr,
         freqs |-> f,
         vlines |-> lines,
         hlines |-> lines,
         plot_outer |-> plot_outer,
         axes |->
            << _plot_brackets(inner_names, inner_tick_loc, inner_tick_width,
                              "inner", "x", n_verts),
               _plot_brackets(inner_names, inner_tick_loc, inner_tick_width,
                              "inner", "y", n_verts) >>
            \o IF plot_outer
               THEN << _plot_brackets(outer_unique, outer_tick_loc,
                                      outer_tick_width, "outer", "x", n_verts),
                       _plot_brackets(outer_unique, outer_tick_loc,
                                      outer_tick_width, "outer", "y", n_verts) >>
               ELSE << >>]

----------------------------------------------------------------------------
(* Inputs *)

ZeroGraph(n) == [i \in 1..n |-> [j \in 1..n |-> 0]]

AddEdge(g, i, j) == [g EXCEPT ![i][j] = @ + 1]

RECURSIVE Graphs(_, _)
\* the n x n matrices of non-negative integer weights of total weight <= e
Graphs(n, e) ==
    IF e = 0 THEN {ZeroGraph(n)}
    ELSE LET G == Graphs(n, e - 1)
         IN  G \cup {AddEdge(g, i, j) : g \in G, i \in 1..n, j \in 1..n}

LabelVectors(n) == [1..n -> LabelValues]

OptLabelVectors(n) == {None} \cup {Some(v) : v \in LabelVectors(n)}

\* the permutations of 0..n-1, as vectors
Perms(n) ==
    {p \in [1..n -> 0..(n - 1)] : \A a, b \in 1..n : p[a] = p[b] => a = b}

\* the inverse of a permutation of 0..n-1
Inverse(p) ==
    [k \in 1..Len(p) |-> (CHOOSE i \in 1..Len(p) : p[i] = k - 1) - 1]

Unused == << >>

\* no entry point is called
NoCall ==
    /\ transform = None /\ heap = Unused /\ arr = 0 /\ raised = "none"
    /\ trace = << >> /\ entry = "" /\ labels = None /\ direction = ""
    /\ imported = << >> /\ kwargs = Unused /\ msg = Unused /\ rc = Unused

----------------------------------------------------------------------------
(* Specification Spec: _process_graphs on one graph, then _sort_inds on   *)
(* its own output                                                         *)

Init ==
    /\ pc = "start"
    /\ \E n \in 1..MaxN :
         /\ X \in Graphs(n, MaxEdges)
         /\ inner_hier_labels \in OptLabelVectors(n)
         /\ outer_hier_labels \in OptLabelVectors(n)
    /\ sort_nodes \in BOOLEAN
    /\ inner_arr = Unused /\ outer_arr = Unused /\ inds = Unused
    /\ sorted_graph = Unused /\ resorted_inds = Unused
    /\ vals = Unused /\ uniq = Unused /\ freqs = Unused
    /\ P = Unused /\ reindexed = Unused /\ restored = Unused
    /\ plot = Unused /\ NoCall

\* check_consistent_length(g, inner, outer): None arguments are skipped
ConsistentLength(g, inner, outer) ==
    /\ inner # None => Len(Unwrap(inner)) = Len(g)
    /\ outer # None => Len(Unwrap(outer)) = Len(g)

\* lines 139-147 of _process_graphs
InnerLabelsOf(g, inner) ==
    IF inner # None THEN Unwrap(inner) ELSE [k \in 1..Len(g) |-> 1]

OuterLabelsOf(g, inner, outer) ==
    IF inner # None
    THEN IF outer = None THEN ones_like(Unwrap(inner)) ELSE Unwrap(outer)
    ELSE ones_like(InnerLabelsOf(g, inner))

\* _process_graphs([X], inner, outer, None, sort_nodes), with the locals of
\* the _sort_graph call it makes (lines 1512-1513) kept in the state
ProcessGraphs ==
    /\ pc = "start"
    /\ ConsistentLength(X, inner_hier_labels, outer_hier_labels)
    /\ inner_arr' = InnerLabelsOf(X, inner_hier_labels)
    /\ outer_arr' = OuterLabelsOf(X, inner_hier_labels, outer_hier_labels)
    /\ inds' = _sort_inds(X, inner_arr', outer_arr', sort_nodes)
    /\ sorted_graph' = Reindex(X, inds')
    /\ pc' = "processed"
    /\ UNCHANGED <<X, inner_hier_labels, outer_hier_labels, sort_nodes,
                   resorted_inds, vals, uniq, freqs, P, reindexed, restored>>
    /\ UNCHANGED <<plot, callvars>>

\* _sort_inds applied to the sorted graph and the labels in sorted order
SortSorted ==
    /\ pc = "processed"
    /\ resorted_inds' = _sort_inds(sorted_graph, Take(inner_arr, inds),
                                   Take(outer_arr, inds), sort_nodes)
    /\ pc' = "resorted"
    /\ UNCHANGED <<X, inner_hier_labels, outer_hier_labels, sort_nodes,
                   inner_arr, outer_arr, inds, sorted_graph, vals, uniq,
                   freqs, P, reindexed, restored>>
    /\ UNCHANGED <<plot, callvars>>

\* heatmap, lines 349-361: _plot_groups on the sorted matrix with the labels
\* as the caller gave them
PlotGroups ==
    /\ pc = "processed"
    /\ inner_hier_labels # None
    /\ plot' = _plot_groups(sorted_graph, Unwrap(inner_hier_labels),
                            outer_hier_labels)
    /\ pc' = "annotated"
    /\ UNCHANGED <<X, inner_hier_labels, outer_hier_labels, sort_nodes,
                   inner_arr, outer_arr, inds, sorted_graph, resorted_inds,
                   vals, uniq, freqs, P, reindexed, restored, callvars>>

Next == ProcessGraphs \/ SortSorted \/ PlotGroups

Spec == Init /\ [][Next]_vars

----------------------------------------------------------------------------
(* Specification SpecUnique: _unique_like on one vector *)

RECURSIVE SeqsUpTo(_, _)
\* the non-empty sequences over S of length <= n
SeqsUpTo(S, n) ==
    IF n = 0 THEN {}
    ELSE SeqsUpTo(S, n - 1) \cup [1..n -> S]

InitUnique ==
    /\ pc = "unique_start"
    /\ vals \in SeqsUpTo(1..MaxVal, MaxLen)
    /\ uniq = Unused /\ freqs = Unused
    /\ X = Unused /\ inner_hier_labels = Unused /\ outer_hier_labels = Unused
    /\ sort_nodes = FALSE
    /\ inner_arr = Unused /\ outer_arr = Unused /\ inds = Unused
    /\ sorted_graph = Unused /\ resorted_inds = Unused
    /\ P = Unused /\ reindexed = Unused /\ restored = Unused
    /\ plot = Unused /\ NoCall

UniqueLike ==
    /\ pc = "unique_start"
    /\ uniq' = _unique_like(vals)
    /\ pc' = "unique_done"
    /\ UNCHANGED <<X, inner_hier_labels, outer_hier_labels, sort_nodes,
                   inner_arr, outer_arr, inds, sorted_graph, resorted_inds,
                   vals, freqs, P, reindexed, restored>>
    /\ UNCHANGED <<plot, callvars>>

NextUnique == UniqueLike

SpecUnique == InitUnique /\ [][NextUnique]_vars

----------------------------------------------------------------------------
(* Specification SpecFreqs: _get_freqs on a pair of label vectors *)

InitFreqs ==
    /\ pc = "freqs_start"
    /\ \E n \in 1..MaxN :
         /\ inner_arr \in LabelVectors(n)
         /\ outer_arr \in LabelVectors(n)
    /\ freqs = Unused /\ vals = Unused /\ uniq = Unused
    /\ X = Unused /\ inner_hier_labels = Unused /\ outer_hier_labels = Unused
    /\ sort_nodes = FALSE
    /\ inds = Unused /\ sorted_graph = Unused /\ resorted_inds = Unused
    /\ P = Unused /\ reindexed = Unused /\ restored = Unused
    /\ plot = Unused /\ NoCall

GetFreqs ==
    /\ pc = "freqs_start"
    /\ freqs' = _get_freqs(inner_arr, outer_arr)
    /\ pc' = "freqs_done"
    /\ UNCHANGED <<X, inner_hier_labels, outer_hier_labels, sort_nodes,
                   inner_arr, outer_arr, inds, sorted_graph, resorted_inds,
                   vals, uniq, P, reindexed, restored>>
    /\ UNCHANGED <<plot, callvars>>

NextFreqs == GetFreqs

SpecFreqs == InitFreqs /\ [][NextFreqs]_vars

----------------------------------------------------------------------------
(* Specification SpecReindex: graph[P, :][:, P], then the same operation  *)
(* with the inverse permutation                                           *)

InitReindex ==
    /\ pc = "reindex_start"
    /\ \E n \in 1..MaxReindexN :
         /\ X \in Graphs(n, MaxReindexEdges)
         /\ P \in Perms(n)
    /\ reindexed = Unused /\ restored = Unused
    /\ inner_hier_labels = Unused /\ outer_hier_labels = Unused
    /\ sort_nodes = FALSE
    /\ inner_arr = Unused /\ outer_arr = Unused /\ inds = Unused
    /\ sorted_graph = Unused /\ resorted_inds = Unused
    /\ vals = Unused /\ uniq = Unused /\ freqs = Unused
    /\ plot = Unused /\ NoCall

ReindexForward ==
    /\ pc = "reindex_start"
    /\ reindexed' = Reindex(X, P)
    /\ pc' = "reindexed"
    /\ UNCHANGED <<X, inner_hier_labels, outer_hier_labels, sort_nodes,
                   inner_arr, outer_arr, inds, sorted_graph, resorted_inds,
                   vals, uniq, freqs, P, restored>>
    /\ UNCHANGED <<plot, callvars>>

ReindexBack ==
    /\ pc = "reindexed"
    /\ restored' = Reindex(reindexed, Inverse(P))
    /\ pc' = "restored"
    /\ UNCHANGED <<X, inner_hier_labels, outer_hier_labels, sort_nodes,
                   inner_arr, outer_arr, inds, sorted_graph, resorted_inds,
                   vals, uniq, freqs, P, reindexed>>
    /\ UNCHANGED <<plot, callvars>>

NextReindex == ReindexForward \/ ReindexBack

SpecReindex == InitReindex /\ [][NextReindex]_vars

----------------------------------------------------------------------------
(* Reference notions the properties are stated with.  They are written    *)
(* from the statements, not from the operators above.                     *)

\* number of entries of v equal to the entry at position a
CountOf(v, a) == Cardinality({b \in 1..Len(v) : v[b] = v[a]})

\* row-sum plus column-sum of the node at position a
EdgeSum(g, a) == SeqSum([b \in 1..Len(g) |-> g[a][b] + g[b][a]])

MaxEdgeSum(g) == SetMax({EdgeSum(g, a) : a \in 1..Len(g)})

\* the position (1-based) at which node i (0-based) stands in ix
PosOf(ix, i) == CHOOSE q \in 1..Len(ix) : ix[q] = i

IsPermutation(ix, n) ==
    /\ Len(ix) = n
    /\ \A i \in 0..(n - 1) : Cardinality({q \in 1..Len(ix) : ix[q] = i}) = 1

\* ix lists the rows 0..n-1 in ascending key order, equal keys in index order
IsStableSortBy(ix, key) ==
    /\ IsPermutation(ix, Len(key))
    /\ \A q, r \in 1..Len(ix) :
         q < r => \/ LexLess(key[ix[q] + 1], key[ix[r] + 1])
                  \/ (key[ix[q] + 1] = key[ix[r] + 1] /\ ix[q] < ix[r])

\* the sort key of the node at position a, as the sorter's contract gives it
ContractKey(g, inner, outer, flag, a) ==
    LET n == Len(inner)
        bylabel == <<n - CountOf(outer, a), outer[a],
                    n - CountOf(inner, a), inner[a]>>
    IN  IF flag THEN Append(bylabel, MaxEdgeSum(g) - EdgeSum(g, a)) ELSE bylabel

\* the multiset of entries of a matrix
Entries(g) ==
    [w \in UNION {Range(g[a]) : a \in 1..Len(g)} |->
        Cardinality({c \in (1..Len(g)) \X (1..Len(g)) : g[c[1]][c[2]] = w})]

\* the distinct values of v in order of first occurrence, and their counts
FirstAt(v, x) == SetMin({a \in 1..Len(v) : v[a] = x})
RankOf(v, x) == Cardinality({y \in Range(v) : FirstAt(v, y) <= FirstAt(v, x)})
FirstOccValues(v) ==
    [m \in 1..Cardinality(Range(v)) |-> CHOOSE x \in Range(v) : RankOf(v, x) = m]
FirstOccCounts(v) ==
    LET u == FirstOccValues(v)
    IN  [m \in 1..Len(u) |-> Cardinality({a \in 1..Len(v) : v[a] = u[m]})]

Sorted == pc \in {"processed", "resorted"}

----------------------------------------------------------------------------
(* Properties of the hierarchical sorter (specification Spec) *)

\* C1: _sort_inds orders the node indices by the lexicographic key
\* (n - count of the outer label, outer label, n - count of the inner label
\* over the whole vector, inner label), with (max edge-sum - edge-sum) as a
\* last key exactly when sort_nodes is set, as a stable sort on that key does.
C1_SortKey ==
    Sorted =>
        IsStableSortBy(inds,
            [a \in 1..Len(X) |->
                ContractKey(X, inner_arr, outer_arr, sort_nodes, a)])

\* a case of C1: three nodes of two outer and two inner groups, degree sort
\* on, and two nodes of one block standing in the reverse of index order
C1_Witness ==
    /\ pc = "processed" /\ sort_nodes /\ Len(X) = 3
    /\ Cardinality(Range(outer_arr)) = 2 /\ Cardinality(Range(inner_arr)) = 2
    /\ \E a, b \in 1..3 :
         /\ a < b /\ outer_arr[a] = outer_arr[b] /\ inner_arr[a] = inner_arr[b]
         /\ PosOf(inds, b - 1) < PosOf(inds, a - 1)

\* C2: the array _sort_inds returns is a permutation of 0..n-1.
C2_Permutation == Sorted => IsPermutation(inds, Len(X))

\* a case of C2: three nodes that the sort moves, with equal keys among them
C2_Witness ==
    /\ pc = "processed" /\ Len(X) = 3 /\ inds # Arange(3)
    /\ \E a, b \in 1..3 :
         a # b /\ ContractKey(X, inner_arr, outer_arr, sort_nodes, a)
                    = ContractKey(X, inner_arr, outer_arr, sort_nodes, b)

\* C3: two nodes i < j with the same outer label, the same inner label and
\* (when sort_nodes is set) the same edge-sum keep their order: i before j.
C3_Stable ==
    Sorted =>
        \A a, b \in 1..Len(X) :
            ( /\ a < b
              /\ outer_arr[a] = outer_arr[b]
              /\ inner_arr[a] = inner_arr[b]
              /\ (sort_nodes => EdgeSum(X, a) = EdgeSum(X, b)) )
            => PosOf(inds, a - 1) < PosOf(inds, b - 1)

\* a case of C3: degree sort on, two nodes of one block with the same
\* non-zero edge-sum, and a third node that the sort moves in front of them
C3_Witness ==
    /\ pc = "processed" /\ sort_nodes /\ Len(X) = 3 /\ inds[1] # 0
    /\ \E a, b \in 1..3 :
         /\ a < b /\ outer_arr[a] = outer_arr[b] /\ inner_arr[a] = inner_arr[b]
         /\ EdgeSum(X, a) = EdgeSum(X, b) /\ EdgeSum(X, a) > 0

\* C4: sorting the sorted graph with the labels in sorted order gives the
\* identity permutation.
C4_Idempotent == pc = "resorted" => resorted_inds = Arange(Len(X))

\* a case of C4: the first sort moved nodes, by label and by degree
C4_Witness ==
    /\ pc = "resorted" /\ sort_nodes /\ inds # Arange(Len(X))
    /\ Cardinality(Range(inner_arr)) = 2
    /\ \E a, b \in 1..Len(X) : EdgeSum(X, a) # EdgeSum(X, b)
    /\ sorted_graph # X

\* C5: with no outer labels and sort_nodes off, the nodes of each inner
\* label stand together, labels with more nodes first, labels of equal count
\* in ascending label order, nodes of one label in index order.
C5_InnerGroupsOnly ==
    (Sorted /\ inner_hier_labels # None /\ outer_hier_labels = None
        /\ ~sort_nodes)
    => LET lab == Unwrap(inner_hier_labels)
       IN  /\ IsPermutation(inds, Len(lab))
           /\ \A q, r \in 1..Len(inds) :
                q < r =>
                  LET a == inds[q] + 1
                      b == inds[r] + 1
                  IN  \/ CountOf(lab, a) > CountOf(lab, b)
                      \/ (CountOf(lab, a) = CountOf(lab, b) /\ lab[a] < lab[b])
                      \/ (lab[a] = lab[b] /\ a < b)

\* a case of C5: the larger group has the larger label and comes first
C5_Witness ==
    /\ pc = "processed" /\ ~sort_nodes /\ outer_hier_labels = None
    /\ inner_hier_labels = Some(<<1, 2, 2>>)
    /\ inds = <<1, 2, 0>>

\* the number of nodes in the (outer, inner) block of the node at position a
BlockSize(inner, outer, a) ==
    Cardinality({b \in 1..Len(inner) : outer[b] = outer[a] /\ inner[b] = inner[a]})

\* C6: in the sorted order the outer groups stand in non-increasing order of
\* size, and inside an outer group the inner groups stand in non-increasing
\* order of their size within that outer group, equal sizes in ascending
\* label order.
C6_InnerGroupOrder ==
    Sorted =>
        \A q, r \in 1..Len(inds) :
            q < r =>
              LET a == inds[q] + 1
                  b == inds[r] + 1
              IN  /\ outer_arr[a] # outer_arr[b]
                       => CountOf(outer_arr, a) >= CountOf(outer_arr, b)
                  /\ (outer_arr[a] = outer_arr[b] /\ inner_arr[a] # inner_arr[b])
                       => \/ BlockSize(inner_arr, outer_arr, a)
                               > BlockSize(inner_arr, outer_arr, b)
                          \/ /\ BlockSize(inner_arr, outer_arr, a)
                                  = BlockSize(inner_arr, outer_arr, b)
                             /\ inner_arr[a] < inner_arr[b]

\* C6 as amended: the outer groups stand in non-increasing order of size,
\* and inside an outer group the inner groups stand in non-increasing order
\* of the inner label's count over the whole label vector (not its count
\* inside that outer group), equal counts in ascending label order.
C6_InnerLabelCountOrder ==
    Sorted =>
        \A q, r \in 1..Len(inds) :
            q < r =>
              LET a == inds[q] + 1
                  b == inds[r] + 1
              IN  /\ outer_arr[a] # outer_arr[b]
                       => CountOf(outer_arr, a) >= CountOf(outer_arr, b)
                  /\ (outer_arr[a] = outer_arr[b] /\ inner_arr[a] # inner_arr[b])
                       => \/ CountOf(inner_arr, a) > CountOf(inner_arr, b)
                          \/ /\ CountOf(inner_arr, a) = CountOf(inner_arr, b)
                             /\ inner_arr[a] < inner_arr[b]

\* a case of C6: an outer group whose two inner groups have one node each,
\* the inner label that is more frequent over the whole vector standing
\* first although it is the larger label
C6_Witness ==
    /\ pc = "processed" /\ Cardinality(Range(outer_arr)) = 2
    /\ \E q, r \in 1..Len(inds) :
         LET a == inds[q] + 1
             b == inds[r] + 1
         IN  /\ q < r /\ outer_arr[a] = outer_arr[b]
             /\ inner_arr[a] > inner_arr[b]
             /\ BlockSize(inner_arr, outer_arr, a)
                  = BlockSize(inner_arr, outer_arr, b)
             /\ CountOf(inner_arr, a) > CountOf(inner_arr, b)

\* C9: _sort_graph reindexes rows and columns by the same permutation:
\* sorted[i][j] = graph[perm[i]][perm[j]], the weight of edge (a, b) stands
\* at (perm^-1(a), perm^-1(b)), and the multiset of entries is unchanged.
C9_SymmetricReindex ==
    Sorted =>
        /\ Len(sorted_graph) = Len(X)
        /\ \A i, j \in 1..Len(X) :
             /\ Len(sorted_graph[i]) = Len(X)
             /\ sorted_graph[i][j] = X[inds[i] + 1][inds[j] + 1]
        /\ \A a, b \in 1..Len(X) :
             sorted_graph[PosOf(inds, a - 1)][PosOf(inds, b - 1)] = X[a][b]
        /\ Entries(sorted_graph) = Entries(X)

\* a case of C9: an edge between two different nodes that the sort moves to
\* another cell, off the transposed cell
C9_Witness ==
    /\ pc = "processed" /\ inds # Arange(Len(X))
    /\ \E a, b \in 1..Len(X) :
         /\ a # b /\ X[a][b] > 0 /\ X[b][a] = 0
         /\ sorted_graph[a][b] = 0
         /\ PosOf(inds, a - 1) # b

----------------------------------------------------------------------------
(* Properties of the group frequency analyzer *)

\* C7 (specification SpecUnique): _unique_like returns the distinct values in
\* order of first occurrence, not sorted order, with their counts in that
\* order; the counts sum to n; [3,1,1,2] gives ([3,1,2],[1,2,1]).
C7_FirstOccurrenceOrder ==
    pc = "unique_done" =>
        /\ uniq.uniques = FirstOccValues(vals)
        /\ uniq.counts = FirstOccCounts(vals)
        /\ \A k, m \in 1..Len(uniq.uniques) :
             k < m => FirstAt(vals, uniq.uniques[k]) < FirstAt(vals, uniq.uniques[m])
        /\ SeqSum(uniq.counts) = Len(vals)
        /\ vals = <<3, 1, 1, 2>>
             => uniq = [uniques |-> <<3, 1, 2>>, counts |-> <<1, 2, 1>>]

\* the case C7 names
C7_Witness ==
    /\ pc = "unique_done" /\ vals = <<3, 1, 1, 2>>
    /\ uniq.uniques = <<3, 1, 2>> /\ uniq.counts = <<1, 2, 1>>

RECURSIVE SegmentCounts(_, _, _)
\* the first-occurrence counts of inner taken segment by segment, the
\* segments having the lengths sizes[k], sizes[k + 1], ...
SegmentCounts(inner, sizes, k) ==
    IF k > Len(sizes) THEN << >>
    ELSE LET before == SeqSum(SubSeq(sizes, 1, k - 1))
         IN  FirstOccCounts(SubSeq(inner, before + 1, before + sizes[k]))
               \o SegmentCounts(inner, sizes, k + 1)

\* C8 (specification SpecFreqs): _get_freqs counts the inner labels inside
\* each outer segment separately and concatenates the counts in segment
\* order (outer [X,X,Y], inner [1,2,1] gives inner counts [1,1,1] and outer
\* counts [2,1]); both cumulative vectors start at 0 and end at n, and every
\* outer boundary is an inner boundary.
C8_PerSegmentCounts ==
    pc = "freqs_done" =>
        LET n == Len(inner_arr)
            ic == freqs.inner_freq_cumsum
            oc == freqs.outer_freq_cumsum
        IN  /\ freqs.outer_freq = FirstOccCounts(outer_arr)
            /\ freqs.inner_freq = SegmentCounts(inner_arr, freqs.outer_freq, 1)
            /\ Len(ic) = Len(freqs.inner_freq) + 1
            /\ Len(oc) = Len(freqs.outer_freq) + 1
            /\ \A k \in 1..Len(freqs.inner_freq) : ic[k + 1] - ic[k] = freqs.inner_freq[k]
            /\ \A k \in 1..Len(freqs.outer_freq) : oc[k + 1] - oc[k] = freqs.outer_freq[k]
            /\ ic[1] = 0 /\ ic[Len(ic)] = n
            /\ oc[1] = 0 /\ oc[Len(oc)] = n
            /\ Range(oc) \subseteq Range(ic)
            /\ (outer_arr = <<1, 1, 2>> /\ inner_arr = <<1, 2, 1>>)
                 => /\ freqs.inner_freq = <<1, 1, 1>>
                    /\ freqs.outer_freq = <<2, 1>>

\* the case C8 names: inner label 1 occurs in both outer groups
C8_Witness ==
    /\ pc = "freqs_done"
    /\ outer_arr = <<1, 1, 2>> /\ inner_arr = <<1, 2, 1>>
    /\ freqs.inner_freq = <<1, 1, 1>> /\ freqs.outer_freq = <<2, 1>>
    /\ freqs.inner_freq_cumsum = <<0, 1, 2, 3>>
    /\ freqs.outer_freq_cumsum = <<0, 2, 3>>

----------------------------------------------------------------------------
(* Property of symmetric reindexing (specification SpecReindex) *)

\* C10: applying graph[P, :][:, P] and then the same operation with the
\* inverse permutation returns the graph exactly.
C10_RoundTrip == pc = "restored" => restored = X

\* a case of C10: a permutation that is not its own inverse moved an edge
C10_Witness ==
    /\ pc = "restored" /\ Inverse(P) # P /\ reindexed # X /\ restored = X

----------------------------------------------------------------------------
(* Transforms.  Where a transform is applied, a matrix entry is a fixed-   *)
(* point number held in thousandths: the integer 1000 stands for 1.0, 693  *)
(* for 0.693.  Logarithms are tabulated, rounded to the thousandth, for    *)
(* the positive weights the inputs use.                                    *)

One == 10 * 100

\* np.log and np.log10 of a positive entry
np_log(x) ==
    CASE x = 500 -> -693 [] x = 1000 -> 0 [] x = 2000 -> 693
      [] x = 3000 -> 1099 [] x = 10000 -> 2303
np_log10(x) ==
    CASE x = 500 -> -301 [] x = 1000 -> 0 [] x = 2000 -> 301
      [] x = 3000 -> 477 [] x = 10000 -> 1000

\* the non-zero weights of the input matrices
Weights == {-1000, 500, 1000, 2000, 3000, 10000}

\* the array objects.  A heap is a sequence of array contents; an object id
\* is a position in it.  A name holds an id, so two names can be bound to
\* one object.
Alloc(h, content) == [heap |-> Append(h, content), id |-> Len(h) + 1]

\* Faulty variant of CopyArray: no copy is taken, the name stays bound to
\* the argument.
CopyArrayAlias(h, a) == [heap |-> h, id |-> a]

\* arr.copy()
CopyArray(h, a) == Alloc(h, h[a])

\* Faulty variant of MaskedLog: the entries outside the mask are lost (set
\* to zero), as with np.log(arr, where=arr > 0) into a fresh output array.
MaskedLogZeroRest(m, method) ==
    [i \in 1..Len(m) |-> [j \in 1..Len(m[i]) |->
        IF m[i][j] > 0
        THEN (IF method = "log" THEN np_log(m[i][j]) ELSE np_log10(m[i][j]))
        ELSE 0]]

\* arr[arr > 0] = np.log(arr[arr > 0])  /  np.log10 (lines 109-112): the
\* contents of the array after the masked assignment
MaskedLog(m, method) ==
    [i \in 1..Len(m) |-> [j \in 1..Len(m[i]) |->
        IF m[i][j] > 0
        THEN (IF method = "log" THEN np_log(m[i][j]) ELSE np_log10(m[i][j]))
        ELSE m[i][j]]]

\* Faulty variant of Binarize: every non-zero entry becomes 1.
BinarizeNonzero(m) ==
    [i \in 1..Len(m) |-> [j \in 1..Len(m[i]) |->
        IF m[i][j] # 0 THEN One ELSE 0]]

\* Binarizer().fit(arr).transform(arr) (lines 116-117): threshold 0.0, an
\* entry above the threshold becomes 1, any other entry 0
Binarize(m) ==
    [i \in 1..Len(m) |-> [j \in 1..Len(m[i]) |->
        IF m[i][j] > 0 THEN One ELSE 0]]

\* pass_to_ranks(arr, method), after the description in heatmap's docstring
\* (lines 201-211): zero entries stay zero; a non-zero entry gets its rank
\* among the non-zero entries (ties share the average rank), for zero-boost
\* counted after the zeros, divided by n^2 + 1, or for simple-nonzero by the
\* number of non-zero entries plus one.
pass_to_ranks(m, method) ==
    LET cells == {c \in (1..Len(m)) \X (1..Len(m)) : TRUE}
        nz == {c \in cells : m[c[1]][c[2]] # 0}
        zeros == Cardinality(cells) - Cardinality(nz)
        \* twice the average rank of the entry x among the non-zero entries
        rank2(x) ==
            2 * Cardinality({c \in nz : m[c[1]][c[2]] < x})
              + Cardinality({c \in nz : m[c[1]][c[2]] = x}) + 1
        boost == IF method = "zero-boost" THEN 2 * zeros ELSE 0
        normalizer == IF method = "simple-nonzero" THEN Cardinality(nz) + 1
                      ELSE Cardinality(cells) + 1
    IN  [i \in 1..Len(m) |-> [j \in 1..Len(m[i]) |->
            IF m[i][j] = 0 THEN 0
            ELSE (One * (rank2(m[i][j]) + boost)) \div (2 * normalizer)]]

\* the transform names _transform accepts (lines 105, 113, 115)
KnownTransforms ==
    {"log", "log10", "zero-boost", "simple-all", "simple-nonzero", "binarize"}

\* strings that are no transform name
OtherStrings == {"sqrt", "Log", ""}

Methods == {None} \cup {Some(t) : t \in KnownTransforms \cup OtherStrings}

\* Faulty variant of _transform: a string that is no transform name is
\* ignored and the input returned.
TransformIgnoreUnknown(h, a, method) ==
    IF method = None THEN [raised |-> "none", heap |-> h, arr |-> a]
    ELSE LET t == Unwrap(method)
         IN  IF t \in {"log", "log10"}
             THEN LET c == CopyArray(h, a)
                  IN  [raised |-> "none",
                       heap |-> [c.heap EXCEPT ![c.id] = MaskedLog(@, t)],
                       arr |-> c.id]
             ELSE IF t \in {"zero-boost", "simple-all", "simple-nonzero"}
             THEN LET c == Alloc(h, pass_to_ranks(h[a], t))
                  IN  [raised |-> "none", heap |-> c.heap, arr |-> c.id]
             ELSE IF t = "binarize"
             THEN LET c == Alloc(h, Binarize(h[a]))
                  IN  [raised |-> "none", heap |-> c.heap, arr |-> c.id]
             ELSE [raised |-> "none", heap |-> h, arr |-> a]

\* _transform(arr, method) on the heap h, arr being bound to object a: the
\* exception raised if any, the heap afterwards and the object returned
_transform(h, a, method) ==
    IF method = None THEN [raised |-> "none", heap |-> h, arr |-> a]
    ELSE LET t == Unwrap(method)
         IN  IF t \in {"log", "log10"}
             THEN LET c == CopyArray(h, a)
                  IN  [raised |-> "none",
                       heap |-> [c.heap EXCEPT ![c.id] = MaskedLog(@, t)],
                       arr |-> c.id]
             ELSE IF t \in {"zero-boost", "simple-all", "simple-nonzero"}
             THEN LET c == Alloc(h, pass_to_ranks(h[a], t))
                  IN  [raised |-> "none", heap |-> c.heap, arr |-> c.id]
             ELSE IF t = "binarize"
             THEN LET c == Alloc(h, Binarize(h[a]))
                  IN  [raised |-> "none", heap |-> c.heap, arr |-> c.id]
             ELSE [raised |-> "ValueError", heap |-> h, arr |-> a]

RECURSIVE WeightedGraphs(_, _, _)
\* the n x n matrices with at most e non-zero entries, each from W
WeightedGraphs(n, e, W) ==
    IF e = 0 THEN {ZeroGraph(n)}
    ELSE LET G == WeightedGraphs(n, e - 1, W)
         IN  G \cup {[g EXCEPT ![i][j] = w] :
                        g \in G, i \in 1..n, j \in 1..n, w \in W}

----------------------------------------------------------------------------
(* The entry points.  An argument that is an array is an object id; an     *)
(* optional array is None or Some(id).  Every operator returns the         *)
(* exception raised if any ("none" otherwise), the steps taken in order    *)
(* and the heap afterwards.                                                *)

\* sklearn's check_consistent_length(*arrays), given the lengths of its
\* arguments that are not None
check_consistent_length(lengths) ==
    IF Cardinality(Range(lengths)) > 1 THEN "ValueError" ELSE "none"

\* the lengths of the arguments that are not None
Lengths(h, args) ==
    LET given == SortedSeq({k \in 1..Len(args) : args[k] # None})
    IN  [k \in 1..Len(given) |-> Len(h[Unwrap(args[given[k]])])]

\* the length a tuple of two has: what check_consistent_length((X, labels))
\* measures (lines 1076, 1079, 1143)
TupleLength == <<Len(<<"X", "labels">>)>>

\* lines 134-135 of _process_graphs
CheckAll(h, graphs, inner, outer) ==
    IF \E k \in 1..Len(graphs) :
          check_consistent_length(
              Lengths(h, <<Some(graphs[k]), inner, outer>>)) = "ValueError"
    THEN "ValueError" ELSE "none"

RECURSIVE TransformAll(_, _, _)
\* line 137 of _process_graphs
TransformAll(h, graphs, method) ==
    IF graphs = << >>
    THEN [raised |-> "none", heap |-> h, graphs |-> << >>]
    ELSE LET r == _transform(h, Head(graphs), method)
         IN  IF r.raised # "none"
             THEN [raised |-> r.raised, heap |-> r.heap, graphs |-> << >>]
             ELSE LET rest == TransformAll(r.heap, Tail(graphs), method)
                  IN  [raised |-> rest.raised, heap |-> rest.heap,
                       graphs |-> <<r.arr>> \o rest.graphs]

RECURSIVE SortAll(_, _, _, _, _)
\* lines 149-152 of _process_graphs; graph[inds, :][:, inds] is a new array
SortAll(h, graphs, inner_labels, outer_labels, flag) ==
    IF graphs = << >> THEN [heap |-> h, graphs |-> << >>]
    ELSE LET c == Alloc(h, _sort_graph(h[Head(graphs)], inner_labels,
                                       outer_labels, flag))
             rest == SortAll(c.heap, Tail(graphs), inner_labels,
                             outer_labels, flag)
         IN  [heap |-> rest.heap, graphs |-> <<c.id>> \o rest.graphs]

\* lines 139-147 of _process_graphs: the two label arrays it sorts by
InnerArray(h, graph, inner) ==
    IF inner # None THEN CopyArray(h, Unwrap(inner))
    ELSE Alloc(h, [k \in 1..Len(h[graph]) |-> 1])

OuterArray(h, inner_id, inner, outer) ==
    IF inner # None /\ outer # None THEN CopyArray(h, Unwrap(outer))
    ELSE Alloc(h, ones_like(h[inner_id]))

ProcessRaised(h, step) ==
    [raised |-> "ValueError", trace |-> step, heap |-> h, graphs |-> << >>,
     transformed |-> << >>]

\* The stages of _process_graphs are operators that take the result of the
\* stage before: t the transformed graphs (line 137), il and ol the inner
\* and outer label arrays (lines 139-147).

\* lines 149-153
ProcessSort(t, il, ol, flag) ==
    LET s == SortAll(ol.heap, t.graphs, ol.heap[il.id], ol.heap[ol.id], flag)
    IN  [raised |-> "none",
         trace |-> <<"check_consistent_length", "_transform", "_sort_graph">>,
         heap |-> s.heap, graphs |-> s.graphs, transformed |-> t.graphs]

\* lines 141-153
ProcessLabels(t, il, inner, outer, flag) ==
    ProcessSort(t, il, OuterArray(il.heap, il.id, inner, outer), flag)

\* lines 139-153
ProcessTransformed(t, inner, outer, flag) ==
    IF t.raised # "none"
    THEN ProcessRaised(t.heap, <<"check_consistent_length", "_transform">>)
    ELSE ProcessLabels(t, InnerArray(t.heap, t.graphs[1], inner),
                       inner, outer, flag)

\* the stages in the faulty order: label arrays, sort, then transform
SortFirstResult(t) ==
    IF t.raised # "none"
    THEN ProcessRaised(t.heap, <<"check_consistent_length", "_sort_graph",
                                 "_transform">>)
    ELSE [raised |-> "none",
          trace |-> <<"check_consistent_length", "_sort_graph",
                      "_transform">>,
          heap |-> t.heap, graphs |-> t.graphs, transformed |-> t.graphs]

SortFirstTransform(s, method) ==
    SortFirstResult(TransformAll(s.heap, s.graphs, method))

SortFirstSort(graphs, il, ol, method, flag) ==
    SortFirstTransform(
        SortAll(ol.heap, graphs, ol.heap[il.id], ol.heap[ol.id], flag),
        method)

SortFirstLabels(graphs, il, inner, outer, method, flag) ==
    SortFirstSort(graphs, il, OuterArray(il.heap, il.id, inner, outer),
                  method, flag)

\* Faulty variant of _process_graphs: the graphs are sorted first and
\* transformed afterwards.
ProcessGraphsSortFirst(h, graphs, inner, outer, method, flag) ==
    IF CheckAll(h, graphs, inner, outer) = "ValueError"
    THEN ProcessRaised(h, <<"check_consistent_length">>)
    ELSE SortFirstLabels(graphs, InnerArray(h, graphs[1], inner), inner,
                         outer, method, flag)

\* _process_graphs(graphs, inner_hier_labels, outer_hier_labels, transform,
\* sort_nodes); transformed are the arrays line 137 produced
_process_graphs(h, graphs, inner, outer, method, flag) ==
    IF CheckAll(h, graphs, inner, outer) = "ValueError"
    THEN ProcessRaised(h, <<"check_consistent_length">>)
    ELSE ProcessTransformed(TransformAll(h, graphs, method), inner, outer,
                            flag)

\* import_graph(X): the matrix normalised for plotting.  For an array the
\* entries are those of X; whether the result is a new object is left open.
import_graph(h, x, copy) ==
    IF copy THEN CopyArray(h, x) ELSE [heap |-> h, id |-> x]

OptValue(h, o) == IF o = None THEN None ELSE Some(h[Unwrap(o)])

\* the call of _plot_groups that ends heatmap (lines 349-361) and gridplot
\* (lines 525-537): on the first sorted matrix, with the labels as the
\* caller passed them; None when there are no inner labels
GroupsDrawn(graph, inner, outer) ==
    IF inner = None THEN None
    ELSE Some(_plot_groups(graph, Unwrap(inner), outer))

GroupSteps(inner) == IF inner = None THEN << >> ELSE <<"_plot_groups">>

\* ids: what import_graph returned; passed: what _process_graphs was handed
EntryRaised(p, before, ids, passed) ==
    [raised |-> p.raised, trace |-> before \o p.trace, heap |-> p.heap,
     drawn |-> None, transformed |-> p.transformed, imported |-> ids,
     passed |-> passed]

\* lines 321-348 of heatmap, given the result p of _process_graphs
HeatmapDraw(p, before, ids, passed) ==
    IF p.raised # "none" THEN EntryRaised(p, before, ids, passed)
    ELSE [raised |-> "none",
          trace |-> before \o p.trace \o <<"sns.heatmap">>,
          heap |-> p.heap,
          drawn |-> Some(p.heap[p.graphs[1]]),
          transformed |-> p.transformed, imported |-> ids,
          passed |-> passed]

HeatmapProcess(imp, inner, outer, method, flag) ==
    HeatmapDraw(
        _process_graphs(imp.heap, <<imp.id>>, inner, outer, method, flag),
        <<"_check_common_inputs", "import_graph">>, <<imp.id>>, <<imp.id>>)

\* heatmap(X, transform, inner_hier_labels, outer_hier_labels, sort_nodes)
\* with the remaining arguments at their defaults, up to the heat map drawn
\* by sns.heatmap (lines 271-348)
heatmap(h, x, inner, outer, method, flag, copy) ==
    HeatmapProcess(import_graph(h, x, copy), inner, outer, method, flag)

RECURSIVE ImportAll(_, _, _)
\* line 467 of gridplot
ImportAll(h, xs, copy) ==
    IF xs = << >> THEN [heap |-> h, graphs |-> << >>]
    ELSE LET c == import_graph(h, Head(xs), copy)
             rest == ImportAll(c.heap, Tail(xs), copy)
         IN  [heap |-> rest.heap, graphs |-> <<c.id>> \o rest.graphs]

\* lines 481-524 of gridplot, given the result p of _process_graphs
GridplotDraw(p, before, ids, passed) ==
    IF p.raised # "none" THEN EntryRaised(p, before, ids, passed)
    ELSE [raised |-> "none",
          trace |-> before \o p.trace \o <<"sns.relplot">>,
          heap |-> p.heap,
          drawn |-> Some([k \in 1..Len(p.graphs) |-> p.heap[p.graphs[k]]]),
          transformed |-> p.transformed, imported |-> ids,
          passed |-> passed]

GridplotProcess(imp, xs, inner, outer, method, flag) ==
    IF check_consistent_length(<<Len(xs), Len(xs)>>) = "ValueError"
    THEN [raised |-> "ValueError",
          trace |-> <<"_check_common_inputs", "import_graph">>,
          heap |-> imp.heap, drawn |-> None, transformed |-> << >>,
          imported |-> imp.graphs, passed |-> << >>]
    ELSE GridplotDraw(
             _process_graphs(imp.heap, xs, inner, outer, method, flag),
             <<"_check_common_inputs", "import_graph">>, imp.graphs, xs)

\* gridplot(X, labels=None, transform, inner_hier_labels,
\* outer_hier_labels, sort_nodes), X being a list of matrices, up to the
\* scatter plot drawn by sns.relplot (lines 457-524): line 475 compares
\* len(X) with the len(X) names of line 473, and line 477 passes X itself,
\* not the imported graphs, to _process_graphs
gridplot(h, xs, inner, outer, method, flag, copy) ==
    GridplotProcess(ImportAll(h, xs, copy), xs, inner, outer, method, flag)

\* X.ravel(): the entries row by row
ravel(m) ==
    LET w == Len(m[1])
    IN  [q \in 1..(Len(m) * w) |-> m[((q - 1) \div w) + 1][((q - 1) % w) + 1]]

\* v[mask] for a boolean mask of the length of v
Masked(v, mask) ==
    LET idx == SortedSeq({k \in 1..Len(v) : mask[k]})
    IN  [q \in 1..Len(idx) |-> v[idx[q]]]

\* np.count_nonzero(X, axis=axis)
count_nonzero(m, axis) ==
    IF axis = 0
    THEN [j \in 1..Len(m[1]) |-> Cardinality({i \in 1..Len(m) : m[i][j] # 0})]
    ELSE [i \in 1..Len(m) |-> Cardinality({j \in 1..Len(m[i]) : m[i][j] # 0})]

\* np.sort(a)
np_sort(a) == Take(a, argsort(a))

\* Faulty variant of DrawsCurve: every category goes to the curve.
DrawsCurveAlways(count, cat_data) == TRUE

\* line 1007 of _distplot: a category is drawn as a cumulative curve when it
\* has more than one member and its data are not all equal, else as a
\* vertical line
DrawsCurve(count, cat_data) ==
    count > 1 /\ SetMin(Range(cat_data)) # SetMax(Range(cat_data))

\* lines 1006-1012: what is drawn for the category cat
CategoryDrawn(cat, count, cat_data) ==
    IF DrawsCurve(count, cat_data)
    THEN [cat |-> Some(cat), kind |-> "curve", at |-> np_sort(cat_data)]
    ELSE [cat |-> Some(cat), kind |-> "line", at |-> <<cat_data[1]>>]

\* lines 1015-1018: what is drawn without labels
UnlabelledDrawn(data) ==
    IF SetMin(Range(data)) # SetMax(Range(data))
    THEN [cat |-> None, kind |-> "hist", at |-> data]
    ELSE [cat |-> None, kind |-> "line", at |-> <<data[1]>>]

\* data[np.where(labels == cat)]
WhereEqual(data, v, cat) ==
    LET idx == SortedSeq({k \in 1..Len(v) : v[k] = cat})
    IN  [q \in 1..Len(idx) |-> data[idx[q]]]

\* _distplot(data, labels), labels being None or an array: the figure is
\* made first (line 998); then one curve or line per category, taken in
\* sorted order, from data[np.where(labels == cat)], which raises IndexError
\* when the category sits at a position data does not have
_distplot(data, lab) ==
    IF lab = None
    THEN [raised |-> "none", trace |-> <<"plt.figure", "draw">>,
          data |-> data, drawn |-> <<UnlabelledDrawn(data)>>]
    ELSE LET v == Unwrap(lab)
             u == np_unique(v)
             bad == {c \in 1..Len(u.uniques) :
                       \E k \in 1..Len(v) :
                           v[k] = u.uniques[c] /\ k > Len(data)}
             done == IF bad = {} THEN Len(u.uniques) ELSE SetMin(bad) - 1
         IN  [raised |-> IF bad = {} THEN "none" ELSE "IndexError",
              trace |-> <<"plt.figure">> \o [k \in 1..done |-> "draw"],
              data |-> data,
              drawn |-> [c \in 1..done |->
                           CategoryDrawn(u.uniques[c], u.counts[c],
                                         WhereEqual(data, v, u.uniques[c]))]]

NotDrawn(exception, steps) ==
    [raised |-> exception, trace |-> steps, data |-> << >>, drawn |-> << >>]

Distplotted(d, before) ==
    [raised |-> d.raised, trace |-> before \o d.trace, data |-> d.data,
     drawn |-> d.drawn]

\* pairplot(X, labels) with the remaining arguments at their defaults
pairplot(h, x, lab) ==
    IF lab # None /\ Len(h[x]) # Len(h[Unwrap(lab)])
    THEN NotDrawn("ValueError", <<"_check_common_inputs">>)
    ELSE NotDrawn("none", <<"_check_common_inputs", "sns.pairplot">>)

\* degreeplot(X, labels, direction)
degreeplot(h, x, lab, dir) ==
    IF dir \notin {"out", "in"}
    THEN NotDrawn("ValueError", <<"_check_common_inputs", "check_array">>)
    ELSE IF check_consistent_length(TupleLength) = "ValueError"
    THEN NotDrawn("ValueError", <<"_check_common_inputs", "check_array",
                                  "check_consistent_length">>)
    ELSE Distplotted(
             _distplot(count_nonzero(h[x], IF dir = "out" THEN 0 ELSE 1),
                       OptValue(h, lab)),
             <<"_check_common_inputs", "check_array",
               "check_consistent_length">>)

\* edgeplot(X, labels, nonzero), labels being an array
edgeplot(h, x, lab, nonzero) ==
    LET before == <<"_check_common_inputs", "check_array",
                    "check_consistent_length">>
        edges == ravel(h[x])
        tiled == tile(h[Unwrap(lab)], Len(h[x][1]))
        mask == [k \in 1..Len(edges) |-> edges[k] # 0]
    IN  IF check_consistent_length(TupleLength) = "ValueError"
        THEN NotDrawn("ValueError", before)
        ELSE IF nonzero /\ Len(tiled) # Len(edges)
        THEN NotDrawn("IndexError", before)
        ELSE IF nonzero
        THEN Distplotted(_distplot(Masked(edges, mask),
                                   Some(Masked(tiled, mask))), before)
        ELSE Distplotted(_distplot(edges, Some(tiled)), before)

\* the non-zero weight of the matrices handed to the entry points: 0.5,
\* which every transform changes and whose logarithm is negative
EntryWeights == {500}

\* what the caller may pass as direction
Directions == {"out", "in", "both"}

\* None, or a label vector of any length from 1 to n + 1
OptLabelsAnyLength(n) ==
    {None} \cup {Some(v) : v \in UNION {LabelVectors(l) : l \in 1..(n + 1)}}

\* the object of an optional argument: position k of the caller's heap
OptId(o, k) == IF o = None THEN None ELSE Some(k)

\* the contents of the object of an optional argument
Content(o) == IF o = None THEN << >> ELSE Unwrap(o)

----------------------------------------------------------------------------
(* Specification SpecEntry: one call of an entry point.  The caller's      *)
(* objects are heap[1] (X), heap[2] and heap[3] (inner and outer           *)
(* hierarchical labels) and heap[4] (labels).                              *)

\* the list gridplot is handed: the caller's X alone, or X and a second
\* matrix (heap[5])
GraphList(h) == IF h[5] = << >> THEN <<1>> ELSE <<1, 5>>

\* the hierarchical labels given have one entry per node
LabelsFit ==
    \A o \in {inner_hier_labels, outer_hier_labels} :
        o # None => Len(Unwrap(o)) = Len(X)

InitEntry ==
    /\ pc = "call"
    /\ \E n \in 1..MaxEntryN :
         /\ X \in WeightedGraphs(n, MaxEntryEntries, EntryWeights)
         /\ \/ /\ entry \in {"heatmap", "gridplot"}
               /\ inner_hier_labels \in OptLabelVectors(n)
               /\ outer_hier_labels \in
                      IF inner_hier_labels = None THEN {None}
                      ELSE OptLabelVectors(n)
               /\ transform \in Methods
               /\ sort_nodes \in BOOLEAN
               /\ labels = None /\ direction = ""
            \/ /\ entry \in {"heatmap", "gridplot"}
               /\ \/ /\ inner_hier_labels \in OptLabelsAnyLength(n)
                     /\ outer_hier_labels = None
                  \/ /\ inner_hier_labels \in OptLabelVectors(n)
                     /\ outer_hier_labels \in OptLabelsAnyLength(n)
               /\ transform = None
               /\ sort_nodes = FALSE
               /\ labels = None /\ direction = ""
            \/ /\ labels \in OptLabelsAnyLength(n)
               /\ \/ entry = "pairplot" /\ direction = ""
                  \/ entry = "degreeplot" /\ direction \in Directions
                  \/ entry = "edgeplot" /\ direction = "" /\ labels # None
               /\ inner_hier_labels = None /\ outer_hier_labels = None
               /\ transform = None
               /\ sort_nodes = FALSE
    /\ \E second \in {<< >>} \cup
                    (IF /\ entry = "gridplot" /\ transform = None
                        /\ outer_hier_labels = None /\ LabelsFit
                     THEN WeightedGraphs(Len(X), MaxEntryEntries,
                                         EntryWeights)
                     ELSE {}) :
         heap = <<X, Content(inner_hier_labels),
                  Content(outer_hier_labels), Content(labels), second>>
    /\ arr = 0 /\ raised = "none" /\ trace = << >>
    /\ imported = << >> /\ kwargs = Unused /\ msg = Unused /\ rc = Unused
    /\ inner_arr = Unused /\ outer_arr = Unused /\ inds = Unused
    /\ sorted_graph = Unused /\ resorted_inds = Unused
    /\ vals = Unused /\ uniq = Unused /\ freqs = Unused
    /\ P = Unused /\ reindexed = Unused /\ restored = Unused
    /\ plot = Unused

EntryFrame ==
    UNCHANGED <<X, inner_hier_labels, outer_hier_labels, sort_nodes,
                inner_arr, outer_arr, inds, sorted_graph, resorted_inds,
                vals, uniq, freqs, P, reindexed, restored, transform,
                entry, labels, direction, kwargs, msg, rc>>

\* arr is the array line 137 made of the first graph, 0 when none was made;
\* a call that has drawn its matrix goes on to the group annotation
Returns(r) ==
    /\ raised' = r.raised
    /\ trace' = r.trace
    /\ heap' = r.heap
    /\ plot' = [drawn |-> r.drawn, groups |-> None, passed |-> r.passed]
    /\ arr' = IF r.transformed = << >> THEN 0 ELSE r.transformed[1]
    /\ imported' = r.imported
    /\ pc' = IF r.raised = "none" THEN "drawn" ELSE "done"
    /\ EntryFrame

Heatmap ==
    /\ pc = "call" /\ entry = "heatmap"
    /\ \E copy \in BOOLEAN :
         Returns(heatmap(heap, 1, OptId(inner_hier_labels, 2),
                         OptId(outer_hier_labels, 3), transform, sort_nodes,
                         copy))

Gridplot ==
    /\ pc = "call" /\ entry = "gridplot"
    /\ \E copy \in BOOLEAN :
         Returns(gridplot(heap, GraphList(heap), OptId(inner_hier_labels, 2),
                          OptId(outer_hier_labels, 3), transform, sort_nodes,
                          copy))

\* the rest of heatmap (lines 349-362) and of gridplot (lines 525-538): the
\* group annotation on the first matrix drawn, then the return
PlotGroupsOfEntry ==
    /\ pc = "drawn"
    /\ LET graph == IF entry = "heatmap" THEN Unwrap(plot.drawn)
                    ELSE Unwrap(plot.drawn)[1]
       IN  plot' = [plot EXCEPT !.groups =
                        GroupsDrawn(graph, OptValue(heap, OptId(inner_hier_labels, 2)),
                                    OptValue(heap, OptId(outer_hier_labels, 3)))]
    /\ trace' = trace \o GroupSteps(inner_hier_labels)
    /\ pc' = "done"
    /\ UNCHANGED <<heap, arr, raised, imported>>
    /\ EntryFrame

\* the entry points that draw from X and labels without making arrays the
\* model keeps: plot holds the data handed to _distplot and what it drew
ReturnsPlain(r) ==
    /\ raised' = r.raised
    /\ trace' = r.trace
    /\ plot' = [data |-> r.data, drawn |-> r.drawn]
    /\ pc' = "done"
    /\ UNCHANGED <<heap, arr, imported>>
    /\ EntryFrame

Pairplot ==
    /\ pc = "call" /\ entry = "pairplot"
    /\ ReturnsPlain(pairplot(heap, 1, OptId(labels, 4)))

Degreeplot ==
    /\ pc = "call" /\ entry = "degreeplot"
    /\ ReturnsPlain(degreeplot(heap, 1, OptId(labels, 4), direction))

Edgeplot ==
    /\ pc = "call" /\ entry = "edgeplot"
    /\ \E nonzero \in BOOLEAN :
         ReturnsPlain(edgeplot(heap, 1, OptId(labels, 4), nonzero))

NextEntry ==
    Heatmap \/ Gridplot \/ PlotGroupsOfEntry \/ Pairplot \/ Degreeplot
        \/ Edgeplot

SpecEntry == InitEntry /\ [][NextEntry]_vars

----------------------------------------------------------------------------
(* Specification SpecTransform: _transform on one matrix *)

InitTransform ==
    /\ pc = "transform_start"
    /\ \E n \in 1..MaxTN : X \in WeightedGraphs(n, MaxTEntries, Weights)
    /\ heap = <<X>> /\ arr = 1
    /\ transform \in Methods
    /\ raised = "none" /\ trace = << >> /\ entry = "_transform"
    /\ labels = None /\ direction = ""
    /\ imported = << >> /\ kwargs = Unused /\ msg = Unused /\ rc = Unused
    /\ inner_hier_labels = None /\ outer_hier_labels = None
    /\ sort_nodes = FALSE
    /\ inner_arr = Unused /\ outer_arr = Unused /\ inds = Unused
    /\ sorted_graph = Unused /\ resorted_inds = Unused
    /\ vals = Unused /\ uniq = Unused /\ freqs = Unused
    /\ P = Unused /\ reindexed = Unused /\ restored = Unused
    /\ plot = Unused

\* the call _transform(arr, transform), arr being the caller's matrix
TransformCall ==
    /\ pc = "transform_start"
    /\ LET r == _transform(heap, arr, transform)
       IN  /\ heap' = r.heap
           /\ arr' = r.arr
           /\ raised' = r.raised
    /\ pc' = "transform_done"
    /\ UNCHANGED <<X, inner_hier_labels, outer_hier_labels, sort_nodes,
                   inner_arr, outer_arr, inds, sorted_graph, resorted_inds,
                   vals, uniq, freqs, P, reindexed, restored, plot,
                   transform, trace, entry, labels, direction, imported,
                   kwargs, msg, rc>>

NextTransform == TransformCall

SpecTransform == InitTransform /\ [][NextTransform]_vars

----------------------------------------------------------------------------
(* Properties of the bracket / group annotator (specification Spec) *)

Annotated == pc = "annotated"

\* the label pair _plot_groups holds for position q (1-based)
PairAt(q) == <<plot.outer_labels_arr[q], plot.inner_labels_arr[q]>>

\* the boundaries 0 = b1 < b2 < ... = n of the runs of equal values of
\* lab(1), ..., lab(n), in ascending order
RunBoundaries(lab(_), n) ==
    SortedSeq({0, n} \cup {q \in 1..(n - 1) : lab(q) # lab(q + 1)})

OuterAt(q) == plot.outer_labels_arr[q]

\* of an axis of brackets: there are as many tick labels as brackets, and
\* every position a bracket spans carries that bracket's tick label
LabelsFitBrackets(ax, lab(_)) ==
    /\ Len(ax.ticklabels) = Len(ax.brackets)
    /\ \A k \in 1..Len(ax.brackets) :
         \A q \in 1..Len(plot.inner_labels_arr) :
            (ax.brackets[k][1] < 2 * q /\ 2 * q <= ax.brackets[k][2])
            => k <= Len(ax.ticklabels) /\ ax.ticklabels[k] = lab(q)

InnerAt(q) == plot.inner_labels_arr[q]

\* C11: every bracket is labelled with the value of its own group: as many
\* labels as brackets on each axis, the k-th label being the label value of
\* the nodes in the k-th bracket's range, also when the outer groups hold
\* different sets of inner labels.
C11_BracketLabels ==
    Annotated =>
        \A x \in 1..Len(plot.axes) :
            LET ax == plot.axes[x]
            IN  IF ax.level = "inner" THEN LabelsFitBrackets(ax, InnerAt)
                ELSE LabelsFitBrackets(ax, OuterAt)

\* of an axis of brackets: the k-th bracket spans from the k-th to the
\* (k+1)-th of the boundaries b (given in nodes)
BracketsSpan(ax, b) ==
    /\ Len(ax.brackets) = Len(b) - 1
    /\ \A k \in 1..Len(ax.brackets) :
         ax.brackets[k] = <<2 * b[k], 2 * b[k + 1]>>

\* C12: bracket k covers [boundary_k, boundary_k+1], so the brackets of one
\* level tile [0, n] without gap or overlap.
C12_BracketsTile ==
    Annotated =>
        LET n == Len(plot.inner_labels_arr)
        IN  \A x \in 1..Len(plot.axes) :
              LET ax == plot.axes[x]
                  br == ax.brackets
              IN  /\ BracketsSpan(ax, IF ax.level = "inner"
                                      THEN RunBoundaries(PairAt, n)
                                      ELSE RunBoundaries(OuterAt, n))
                  /\ br[1][1] = 0 /\ br[Len(br)][2] = 2 * n
                  /\ \A k \in 1..Len(br) : br[k][1] < br[k][2]
                  /\ \A k \in 1..(Len(br) - 1) : br[k][2] = br[k + 1][1]

\* a case of C12: two outer groups, three inner groups, a group of odd size
C12_Witness ==
    /\ Annotated /\ plot.plot_outer /\ Len(plot.axes) = 4
    /\ Len(plot.axes[1].brackets) = 3 /\ Len(plot.axes[3].brackets) = 2
    /\ plot.axes[3].brackets = <<<<0, 4>>, <<4, 6>>>>

\* C13: one vertical and one horizontal dashed line at every inner-group
\* boundary except the first (0) and the last (n): g - 1 lines per
\* direction for g inner groups, each strictly between 0 and n.
C13_Gridlines ==
    Annotated =>
        LET n == Len(plot.inner_labels_arr)
            b == RunBoundaries(PairAt, n)
            g == Cardinality({PairAt(q) : q \in 1..n})
        IN  /\ plot.vlines = SubSeq(b, 2, Len(b) - 1)
            /\ plot.hlines = plot.vlines
            /\ Len(plot.vlines) = g - 1
            /\ \A k \in 1..Len(plot.vlines) :
                 0 < plot.vlines[k] /\ plot.vlines[k] < n

\* a case of C13: three inner groups in two outer groups, two lines
C13_Witness ==
    /\ Annotated /\ plot.plot_outer
    /\ Cardinality({PairAt(q) : q \in 1..Len(plot.inner_labels_arr)}) = 3
    /\ plot.vlines = <<1, 2>> /\ plot.hlines = <<1, 2>>

\* C14: at every position the label pair _plot_groups assigns to the position
\* is the label pair of the node _process_graphs placed at that row/column,
\* for either value of sort_nodes.
C14_AnnotationMatchesMatrix ==
    Annotated =>
        /\ Len(plot.inner_labels_arr) = Len(inds)
        /\ \A q \in 1..Len(inds) :
             PairAt(q) = <<outer_arr[inds[q] + 1], inner_arr[inds[q] + 1]>>

\* a case of C14: the degree sort put the nodes of a block in another order
\* than the one the annotator computes
C14_Witness ==
    /\ Annotated /\ sort_nodes /\ plot.sorted_inds # inds
    /\ inds # Arange(Len(inds))
    /\ Cardinality(Range(inner_arr)) = 2

----------------------------------------------------------------------------
(* Properties of _transform (specification SpecTransform) *)

TransformDone == pc = "transform_done"

\* the matrix _transform returned
Returned == heap[arr]

SameShape(a, b) ==
    /\ Len(a) = Len(b)
    /\ \A i \in 1..Len(a) : Len(a[i]) = Len(b[i])

C17_SameNonzeroPattern ==
    (TransformDone /\ transform = Some("binarize")) =>
        /\ raised = "none"
        /\ SameShape(Returned, X)
        /\ \A i, j \in 1..Len(X) :
             /\ Returned[i][j] \in {0, One}
             /\ Returned[i][j] # 0 <=> X[i][j] # 0

\* C17 as amended: 'binarize' gives a matrix of 0s and 1s whose entry is 1
\* exactly where the input entry is strictly positive; the non-zero pattern
\* is that of the input when the input has no negative entry.
C17_PositivePattern ==
    (TransformDone /\ transform = Some("binarize")) =>
        /\ raised = "none"
        /\ SameShape(Returned, X)
        /\ \A i, j \in 1..Len(X) :
             /\ Returned[i][j] \in {0, One}
             /\ Returned[i][j] = One <=> X[i][j] > 0
        /\ (\A i, j \in 1..Len(X) : X[i][j] >= 0)
             => \A i, j \in 1..Len(X) : Returned[i][j] # 0 <=> X[i][j] # 0

\* a case of C17: a negative entry, which becomes 0, and a weight above 1
C17_Witness ==
    /\ TransformDone /\ transform = Some("binarize")
    /\ \E i, j, k, l \in 1..Len(X) :
         /\ X[i][j] < 0 /\ Returned[i][j] = 0
         /\ X[k][l] = 3000 /\ Returned[k][l] = One

----------------------------------------------------------------------------
(* Properties of the entry points (specification SpecEntry) *)

Done == pc = "done"

ProcessEntry == entry \in {"heatmap", "gridplot"}

\* the labels given to the call all have one entry per node
LengthsMatch ==
    \A o \in {inner_hier_labels, outer_hier_labels, labels} :
        o # None => Len(Unwrap(o)) = Len(X)

\* the matrix the call drew (gridplot draws a list of them)
Drawn ==
    IF entry = "heatmap" THEN Unwrap(plot.drawn) ELSE Unwrap(plot.drawn)[1]

\* a node's row-sum plus its column-sum in the matrix m (node i is 0-based)
EdgeSumIn(m, i) == sum_axis1(m)[i + 1] + sum_axis0(m)[i + 1]

\* the (outer, inner) block of node i under the labels the call sorts by
BlockOf(i) ==
    <<OuterLabelsOf(X, inner_hier_labels, outer_hier_labels)[i + 1],
      InnerLabelsOf(X, inner_hier_labels)[i + 1]>>

\* the value of the transformed matrix
TransformedValue == _transform(<<X>>, 1, transform).heap[
                        _transform(<<X>>, 1, transform).arr]

\* C15: with sort_nodes true the matrix drawn is the transformed matrix with
\* rows and columns reordered by one permutation of the nodes under which,
\* inside every (outer, inner) block, the row-sum plus column-sum taken on
\* the transformed matrix never increases; without labels the whole graph is
\* one block.
C15_DegreeOnTransformed ==
    (Done /\ ProcessEntry /\ raised = "none" /\ sort_nodes) =>
        /\ heap[arr] = TransformedValue
        /\ \E perm \in Perms(Len(X)) :
             /\ Drawn = Reindex(heap[arr], perm)
             /\ \A p, q \in 1..Len(X) :
                  (p < q /\ BlockOf(perm[p]) = BlockOf(perm[q])) =>
                      EdgeSumIn(heap[arr], perm[p])
                          >= EdgeSumIn(heap[arr], perm[q])

\* a case of C15: two nodes of one block that the transform puts in the
\* opposite order of their sums in the matrix as given
C15_Witness ==
    /\ Done /\ entry = "heatmap" /\ raised = "none" /\ sort_nodes
    /\ transform = Some("log")
    /\ \E i, j \in 0..(Len(X) - 1) :
         /\ BlockOf(i) = BlockOf(j)
         /\ EdgeSumIn(X, i) > EdgeSumIn(X, j)
         /\ EdgeSumIn(heap[arr], i) < EdgeSumIn(heap[arr], j)

SortOrDrawSteps ==
    {"_sort_graph", "sns.heatmap", "sns.relplot", "_plot_groups"}

\* C18: in heatmap and gridplot, with transform None the array _transform
\* returns has the entries of its input (in gridplot it is the caller's
\* matrix itself), and with a string that is no transform name the call
\* raises ValueError after no sorting or drawing step.
C18_TransformNoneOrUnknown ==
    (Done /\ ProcessEntry /\ LengthsMatch) =>
        /\ transform = None =>
             /\ raised = "none"
             /\ heap[arr] = X
             /\ entry = "gridplot" => arr = 1
        /\ (transform # None /\ Unwrap(transform) \notin KnownTransforms) =>
             /\ raised = "ValueError"
             /\ \A k \in 1..Len(trace) : trace[k] \notin SortOrDrawSteps
             /\ trace[Len(trace)] = "_transform"

\* a case of C18: a heatmap call with labels, sort_nodes and an unknown
\* transform name
C18_Witness ==
    /\ Done /\ entry = "heatmap" /\ transform = Some("sqrt")
    /\ inner_hier_labels # None /\ sort_nodes
    /\ raised = "ValueError"

\* C19: after heatmap or gridplot (through them _process_graphs, _transform
\* and _sort_graph) returns or raises, the caller's matrix and label vectors
\* have the entries they had before the call.
C19_CallerArraysKept ==
    (Done /\ ProcessEntry) =>
        /\ heap[1] = X
        /\ heap[2] = Content(inner_hier_labels)
        /\ heap[3] = Content(outer_hier_labels)

\* a case of C19: the caller's own matrix object went through a log
\* transform that changed entries, and through the sort
C19_Witness ==
    /\ Done /\ entry = "gridplot" /\ transform = Some("log")
    /\ raised = "none" /\ inner_hier_labels # None
    /\ heap[arr] # X /\ heap[1] = X

DrawSteps ==
    {"sns.heatmap", "sns.relplot", "_plot_groups", "sns.pairplot",
     "plt.figure", "draw"}

\* C20: every entry point that takes a matrix and node labels raises
\* ValueError, before any drawing step, when a label vector's length
\* differs from the number of nodes.
C20_LengthMismatchRaises ==
    (Done /\ ~LengthsMatch) =>
        /\ raised = "ValueError"
        /\ \A k \in 1..Len(trace) : trace[k] \notin DrawSteps

----------------------------------------------------------------------------
(* Properties of degreeplot (specification SpecEntry) *)

\* the number of non-zero entries in row i and in column i of X (1-based)
RowCount(i) == Cardinality({j \in 1..Len(X) : X[i][j] # 0})

ColumnCount(i) == Cardinality({j \in 1..Len(X) : X[j][i] # 0})

DegreeplotDone ==
    Done /\ entry = "degreeplot" /\ direction \in {"out", "in"}

\* C26: degreeplot with direction 'out' hands the distribution plot, for
\* node i, the number of non-zero entries of row i of X, with 'in' that of
\* column i; any other direction raises ValueError.
C26_DegreeDirection ==
    (Done /\ entry = "degreeplot") =>
        /\ direction = "out" =>
             plot.data = [i \in 1..Len(X) |-> RowCount(i)]
        /\ direction = "in" =>
             plot.data = [i \in 1..Len(X) |-> ColumnCount(i)]
        /\ direction \notin {"out", "in"} => raised = "ValueError"

\* the degrees of the nodes labelled cat, in node order
DegreesOf(cat) ==
    WhereEqual(plot.data, Unwrap(labels), cat)

\* what was drawn for the category cat
DrawnFor(cat) ==
    SelectSeq(plot.drawn, LAMBDA e : e.cat = Some(cat))

\* C27: degreeplot gives an isolated node the degree 0 and does not raise on
\* it; a label category with a single node or with all degrees equal, and
\* unlabelled data that are all equal, are drawn as one vertical line at
\* that degree.
C27_SingletonAsLine ==
    (DegreeplotDone /\ LengthsMatch) =>
        /\ raised = "none"
        /\ \A i \in 1..Len(X) :
             (RowCount(i) = 0 /\ ColumnCount(i) = 0) => plot.data[i] = 0
        /\ labels # None =>
             \A cat \in Range(Unwrap(labels)) :
                 Cardinality(Range(DegreesOf(cat))) = 1 =>
                     DrawnFor(cat) =
                         <<[cat |-> Some(cat), kind |-> "line",
                            at |-> <<DegreesOf(cat)[1]>>]>>
        /\ (labels = None /\ Cardinality(Range(plot.data)) = 1) =>
             plot.drawn = <<[cat |-> None, kind |-> "line",
                             at |-> <<plot.data[1]>>]>>

\* a case of C27: an isolated node that is alone in its label category,
\* beside a node with an edge
C27_Witness ==
    /\ DegreeplotDone /\ LengthsMatch /\ labels # None /\ raised = "none"
    /\ \E i, j \in 1..Len(X) :
         /\ RowCount(i) = 0 /\ ColumnCount(i) = 0
         /\ \A k \in 1..Len(X) : Unwrap(labels)[k] = Unwrap(labels)[i] => k = i
         /\ plot.data[j] > 0
         /\ DrawnFor(Unwrap(labels)[i]) # << >>

----------------------------------------------------------------------------
(* Properties of gridplot and of the resolution of the input               *)
(* (specification SpecEntry)                                               *)

\* gridplot drew its matrices, untransformed
GridplotDrawn ==
    Done /\ entry = "gridplot" /\ raised = "none" /\ transform = None

\* the matrices gridplot was handed and the ones it drew, in order
GivenGraphs == [k \in 1..Len(GraphList(heap)) |-> heap[GraphList(heap)[k]]]

DrawnGraphs == Unwrap(plot.drawn)

\* C28: gridplot reorders all of its graphs by one common node permutation,
\* whatever sort_nodes is: there is one permutation under which every drawn
\* matrix is the matrix given in its place, rows and columns reindexed.
C28_CommonPermutation ==
    GridplotDrawn =>
        \E perm \in Perms(Len(X)) :
            \A k \in 1..Len(DrawnGraphs) :
                DrawnGraphs[k] = Reindex(GivenGraphs[k], perm)

\* the call handed matrices to _process_graphs
Processed == pc \in {"drawn", "done"} /\ ProcessEntry /\ plot.passed # << >>

\* C29: the matrices an entry point passes to _process_graphs are the
\* arrays import_graph returned for its input, not the input itself.
C29_ImportedArePassed ==
    Processed => plot.passed = imported

----------------------------------------------------------------------------
(* Argument validation of the public plotting functions.  An argument is   *)
(* a pair <<type name, value>>; the body of a function is the sequence of  *)
(* its statements in source order, each either a check (which passes or    *)
(* raises) or an effect (a figure made, a drawing call, a change of the    *)
(* styling state).                                                         *)

TypeOf(v) == v[1]

ValueOf(v) == v[2]

NoneValue == <<"NoneType", "None">>

\* isinstance(v, types): bool is a subclass of int
IsInstance(v, types) ==
    \/ TypeOf(v) \in types
    \/ TypeOf(v) = "bool" /\ "int" \in types

\* the shape of the matrix X the calls are made on
XShape == <<2, 2>>

\* a check that does not raise
Passes ==
    [kind |-> "check", name |-> "", raised |-> "none", origin |-> "",
     names |-> "", reports |-> None, arg |-> None]

\* raise exc(msg) in plot.py: names is the parameter the message names,
\* reports what the message formats into its text
Raise(exc, names, reports) ==
    [kind |-> "check", name |-> "", raised |-> exc, origin |-> "plot.py",
     names |-> names, reports |-> reports, arg |-> None]

\* an exception out of a checker of a library (sklearn, preconditions)
LibraryRaise(exc) ==
    [kind |-> "check", name |-> "", raised |-> exc, origin |-> "library",
     names |-> "", reports |-> None, arg |-> None]

\* an exception out of the use of a value while drawing
UseRaise(exc) ==
    [kind |-> "use", name |-> "", raised |-> exc, origin |-> "python",
     names |-> "", reports |-> None, arg |-> None]

Effect(name, arg) ==
    [kind |-> "effect", name |-> name, raised |-> "none", origin |-> "",
     names |-> "", reports |-> None, arg |-> arg]

\* "... not {}".format(type(v)) and "... not {}".format(v)
TypeReport(v) == Some(<<"type", TypeOf(v)>>)

ValueReport(v) == Some(<<"value", v>>)

\* the value _check_common_inputs receives for a parameter: the caller's
\* when the entry point passes it on, else the default None
Arg(kw, passed, p) == IF p \in passed THEN kw[p] ELSE NoneValue

\* if v is not None: if not isinstance(v, types): raise TypeError(...)
\* with type(shown) in the message
TypeCheck(v, types, names, shown) ==
    IF v = NoneValue \/ IsInstance(v, types) THEN Passes
    ELSE Raise("TypeError", names, TypeReport(shown))

ContextPresets == {"paper", "notebook", "talk", "poster"}

\* lines 64-74
ContextCheck(v) ==
    IF v = NoneValue THEN Passes
    ELSE IF ~IsInstance(v, {"str"})
         THEN Raise("TypeError", "context", TypeReport(v))
         ELSE IF ValueOf(v) \notin ContextPresets
              THEN Raise("ValueError", "context", ValueReport(v))
              ELSE Passes

\* _check_common_inputs (lines 36-100), called with the parameters in
\* passed: its checks in order.  The messages of the last two format
\* type(legend_name).
_check_common_inputs(kw, passed) ==
    << TypeCheck(Arg(kw, passed, "figsize"), {"tuple"}, "figsize",
                 Arg(kw, passed, "figsize")),
       TypeCheck(Arg(kw, passed, "height"), {"int", "float"}, "height",
                 Arg(kw, passed, "height")),
       TypeCheck(Arg(kw, passed, "title"), {"str"}, "title",
                 Arg(kw, passed, "title")),
       ContextCheck(Arg(kw, passed, "context")),
       TypeCheck(Arg(kw, passed, "font_scale"), {"int", "float"},
                 "font_scale", Arg(kw, passed, "font_scale")),
       TypeCheck(Arg(kw, passed, "legend_name"), {"str"}, "legend_name",
                 Arg(kw, passed, "legend_name")),
       TypeCheck(Arg(kw, passed, "hier_label_fontsize"), {"int", "float"},
                 "hier_label_fontsize", Arg(kw, passed, "legend_name")),
       TypeCheck(Arg(kw, passed, "title_pad"), {"int", "float"},
                 "title_pad", Arg(kw, passed, "legend_name")) >>

\* heatmap, lines 282-296: a list of tick labels must have the length of
\* the axis (the message gives the length wanted), anything else be a bool
TickLabelsCheck(v, names, length) ==
    IF TypeOf(v) = "list"
    THEN IF Len(ValueOf(v)) # length
         THEN Raise("ValueError", names, Some(<<"expected", length>>))
         ELSE Passes
    ELSE IF TypeOf(v) # "bool"
         THEN Raise("TypeError", names, TypeReport(v))
         ELSE Passes

\* the exception of _transform (lines 104-121) for a method that is not
\* None and no transform name
TransformCheck(v) ==
    IF v = NoneValue \/ (TypeOf(v) = "str" /\ ValueOf(v) \in KnownTransforms)
    THEN Passes
    ELSE Raise("ValueError", "transform", ValueReport(v))

\* with sns.plotting_context(context, font_scale=font_scale): ... (the
\* block's statements between the two effects)
With(kw, block) ==
    <<Effect("sns.plotting_context", Some(<<kw.context, kw.font_scale>>))>>
        \o block \o <<Effect("end with", None)>>

\* heatmap, lines 272-362, called without ax and hierarchical labels
heatmap_body(kw) ==
    _check_common_inputs(kw, {"figsize", "title", "context", "font_scale",
                              "hier_label_fontsize", "title_pad"})
    \o << TickLabelsCheck(kw.xticklabels, "xticklabels", XShape[2]),
          TickLabelsCheck(kw.yticklabels, "yticklabels", XShape[1]),
          IF IsInstance(kw.cmap, {"str", "list", "Colormap"}) THEN Passes
          ELSE Raise("TypeError", "cmap", TypeReport(kw.cmap)),
          TypeCheck(kw.center, {"int", "float"}, "center", kw.center),
          IF IsInstance(kw.cbar, {"bool"}) THEN Passes
          ELSE Raise("TypeError", "cbar", TypeReport(kw.center)),
          Effect("import_graph", None),
          TransformCheck(kw.transform) >>
    \o With(kw, << Effect("plt.subplots", None),
                   Effect("sns.heatmap", None) >>)

\* gridplot, lines 457-538, called without hierarchical labels
gridplot_body(kw) ==
    _check_common_inputs(kw, {"height", "title", "context", "font_scale",
                              "hier_label_fontsize", "title_pad"})
    \o << IF IsInstance(kw.X, {"list"}) THEN Passes
          ELSE Raise("TypeError", "X", TypeReport(kw.X)),
          Effect("import_graph", None),
          IF /\ TypeOf(kw.X) = "list" /\ TypeOf(kw.labels) = "list"
             /\ Len(ValueOf(kw.X)) # Len(ValueOf(kw.labels))
          THEN LibraryRaise("ValueError") ELSE Passes,
          TransformCheck(kw.transform) >>
    \o With(kw, << Effect("sns.set_style", Some("white")),
                   Effect("sns.relplot", None) >>)

\* pairplot, lines 631-641: the column names, defaulted when None
ColNames(kw) ==
    IF kw.col_names = NoneValue
    THEN <<"Dimension 1", "Dimension 2">>
    ELSE ValueOf(kw.col_names)

\* Faulty variant of VariablesCheck: the names are looked up before the
\* lengths are compared.
VariablesCheckKeysFirst(variables, col_names) ==
    IF variables = NoneValue THEN Passes
    ELSE IF \E k \in 1..Len(ValueOf(variables)) :
                ValueOf(variables)[k] \notin Range(col_names)
         THEN Raise("KeyError", "", None)
         ELSE IF Len(ValueOf(variables)) > Len(col_names)
              THEN Raise("ValueError", "variables", None)
              ELSE Passes

\* pairplot, lines 643-652
VariablesCheck(variables, col_names) ==
    IF variables = NoneValue THEN Passes
    ELSE IF Len(ValueOf(variables)) > Len(col_names)
         THEN Raise("ValueError", "variables", None)
         ELSE IF \E k \in 1..Len(ValueOf(variables)) :
                     ValueOf(variables)[k] \notin Range(col_names)
              THEN Raise("KeyError", "",
                         ValueReport(<<"str",
                             ValueOf(variables)[
                                 SetMin({k \in 1..Len(ValueOf(variables)) :
                                     ValueOf(variables)[k]
                                         \notin Range(col_names)})]>>))
              ELSE Passes

\* pairplot, lines 653-654 and 675-692: the columns handed to sns.pairplot
PlottedVariables(variables, col_names) ==
    IF variables = NoneValue THEN col_names ELSE ValueOf(variables)

\* pairplot, lines 606-697; a check behind one that raised on the same
\* value is never reached and is not evaluated
pairplot_body(kw) ==
    _check_common_inputs(kw, {"height", "title", "context", "font_scale",
                              "legend_name"})
    \o << IF IsInstance(kw.X, {"list", "ndarray"}) THEN Passes
          ELSE Raise("TypeError", "X", TypeReport(kw.X)),
          IF kw.labels = NoneValue THEN Passes
          ELSE IF ~IsInstance(kw.labels, {"list", "ndarray"})
               THEN Raise("TypeError", "Y", TypeReport(kw.labels))
               ELSE IF XShape[1] # Len(ValueOf(kw.labels))
                    THEN Raise("ValueError", "Y",
                               Some(<<"length", Len(ValueOf(kw.labels))>>))
                    ELSE Passes,
          IF kw.col_names = NoneValue THEN Passes
          ELSE IF ~IsInstance(kw.col_names, {"list"})
               THEN Raise("TypeError", "col_names", TypeReport(kw.col_names))
               ELSE IF XShape[2] # Len(ValueOf(kw.col_names))
                    THEN Raise("ValueError", "col_names",
                               Some(<<"length", Len(ValueOf(kw.col_names))>>))
                    ELSE Passes,
          IF kw.col_names # NoneValue /\ TypeOf(kw.col_names) # "list"
          THEN Passes
          ELSE VariablesCheck(kw.variables, ColNames(kw)) >>
    \o With(kw, << Effect("sns.pairplot",
                          IF kw.col_names # NoneValue
                             /\ TypeOf(kw.col_names) # "list"
                          THEN None
                          ELSE Some(PlottedVariables(kw.variables,
                                                     ColNames(kw)))) >>)

\* pairplot_with_gmm, lines 844-852: the legend title
LegendName(kw) ==
    IF kw.labels # NoneValue
    THEN IF kw.legend_name = NoneValue THEN <<"str", "">>
         ELSE kw.legend_name
    ELSE <<"str", "Cluster">>

\* pairplot_with_gmm, lines 887-889: a palette name is made a dict
AsDict(palette) ==
    IF IsInstance(palette, {"str"}) THEN <<"dict", 2>> ELSE palette

\* pairplot_with_gmm, lines 885-898, labels being given: the check of
\* cluster_palette tests label_palette, which by then is a dict
PaletteChecks(kw) ==
    IF kw.labels = NoneValue THEN <<Passes, Passes>>
    ELSE << IF IsInstance(kw.label_palette, {"str", "dict"}) THEN Passes
            ELSE Raise("ValueError", "palette", None),
            IF IsInstance(kw.cluster_palette, {"str"}) THEN Passes
            ELSE IF ~IsInstance(AsDict(kw.label_palette), {"dict"})
                 THEN Raise("ValueError", "palette", None)
                 ELSE Passes >>

\* _plot_ellipse_and_data, line 759: cluster_palette[i], of the dict made
\* of a palette name (lines 894-895), of the caller's dict or list, or of
\* a value that cannot be indexed
ClusterColor(kw) ==
    IF IsInstance(kw.cluster_palette, {"str", "dict", "list"}) THEN Passes
    ELSE UseRaise("TypeError")

\* pairplot_with_gmm, lines 844-983, on an X of two columns
pairplot_with_gmm_body(kw) ==
    << IF /\ kw.labels # NoneValue
          /\ \/ TypeOf(kw.labels) # "list"
             \/ Len(ValueOf(kw.labels)) # XShape[1]
       THEN LibraryRaise("ValueError") ELSE Passes,
       IF kw.gmm = NoneValue THEN Raise("NameError", "", None)
       ELSE Passes >>
    \o PaletteChecks(kw)
    \o With(kw, << Effect("plt.subplots", None),
                   Effect("sns.scatterplot", None),
                   ClusterColor(kw),
                   Effect("fig.legend", Some(LegendName(kw))) >>)

\* _distplot, lines 998-1024
distplot_body(kw) ==
    <<Effect("plt.figure", None)>>
    \o With(kw, <<Effect("plt.plot", None)>>)

\* degreeplot, lines 1070-1093
degreeplot_body(kw) ==
    _check_common_inputs(kw, {"figsize", "title", "context", "font_scale"})
    \o << IF kw.direction \in {<<"str", "out">>, <<"str", "in">>}
          THEN Passes
          ELSE Raise("ValueError", "direction", None) >>
    \o distplot_body(kw)

\* edgeplot, lines 1139-1160
edgeplot_body(kw) ==
    _check_common_inputs(kw, {"figsize", "title", "context", "font_scale"})
    \o distplot_body(kw)

\* Faulty variant of screeplot_body: the figure is made before the
\* arguments are checked.
ScreeplotFigureFirst(kw) ==
    <<Effect("plt.figure", None)>>
    \o _check_common_inputs(kw, {"figsize", "title", "context",
                                 "font_scale"})
    \o << IF kw.show_first = NoneValue
             \/ IsInstance(kw.show_first, {"int"})
          THEN Passes ELSE Raise("TypeError", "show_first", None),
          IF IsInstance(kw.cumulative, {"bool"}) THEN Passes
          ELSE Raise("TypeError", "cumulative", None) >>
    \o With(kw, <<Effect("plt.plot", None)>>)

\* screeplot, lines 1438-1464
screeplot_body(kw) ==
    _check_common_inputs(kw, {"figsize", "title", "context", "font_scale"})
    \o << IF kw.show_first = NoneValue
             \/ IsInstance(kw.show_first, {"int"})
          THEN Passes ELSE Raise("TypeError", "show_first", None),
          IF IsInstance(kw.cumulative, {"bool"}) THEN Passes
          ELSE Raise("TypeError", "cumulative", None),
          Effect("plt.figure", None) >>
    \o With(kw, <<Effect("plt.plot", None)>>)

\* networkplot, lines 1289-1333: the checks of x, y, node_data, node_hue
LayoutChecks(kw) ==
    IF TypeOf(kw.x) = "ndarray"
    THEN << IF TypeOf(kw.y) # "ndarray"
               \/ ValueOf(kw.x) # XShape[1] \/ ValueOf(kw.y) # XShape[1]
            THEN LibraryRaise("ValueError") ELSE Passes,
            IF kw.node_data # NoneValue THEN LibraryRaise("ValueError")
            ELSE Passes,
            IF kw.node_hue # NoneValue /\ TypeOf(kw.node_hue) # "ndarray"
            THEN LibraryRaise("ValueError") ELSE Passes,
            IF TypeOf(kw.node_hue) = "ndarray"
               /\ ValueOf(kw.node_hue) # ValueOf(kw.x)
            THEN LibraryRaise("ValueError") ELSE Passes >>
    ELSE IF TypeOf(kw.x) = "str" /\ TypeOf(kw.y) = "str"
         THEN << IF kw.node_data # NoneValue
                    /\ ValueOf(kw.node_data) # XShape[1]
                 THEN LibraryRaise("ValueError") ELSE Passes,
                 IF TypeOf(kw.node_data) # "DataFrame"
                 THEN Raise("ValueError", "node_data", None) ELSE Passes,
                 IF kw.node_hue # NoneValue /\ TypeOf(kw.node_hue) # "str"
                 THEN Raise("ValueError", "node_hue", None) ELSE Passes >>
         ELSE << Raise("TypeError", "x", None) >>

\* networkplot, lines 1285-1400, called without ax
networkplot_body(kw) ==
    _check_common_inputs(kw, {"figsize", "title", "context", "font_scale"})
    \o LayoutChecks(kw)
    \o With(kw, << Effect("plt.subplots", None),
                   Effect("sns.scatterplot", None) >>)

\* the calls that make or draw on a plotting surface
SurfaceSteps ==
    {"plt.figure", "plt.subplots", "plt.plot", "sns.heatmap", "sns.relplot",
     "sns.pairplot", "sns.scatterplot", "fig.legend"}

\* the effect of one statement on the state of the call: the styling
\* context is saved and set on entering the with block and put back on
\* leaving it; sns.set_style writes the style
Apply(s, st) ==
    [raised |-> st.raised, msg |-> st.msg,
     trace |-> Append(st.trace, s.name),
     drawn |-> IF s.name \in SurfaceSteps
               THEN Append(st.drawn, [name |-> s.name, arg |-> s.arg])
               ELSE st.drawn,
     saved |-> IF s.name = "sns.plotting_context" THEN Some(st.rc.context)
               ELSE IF s.name = "end with" THEN None ELSE st.saved,
     rc |-> IF s.name = "sns.plotting_context"
            THEN [st.rc EXCEPT !.context =
                      IF Unwrap(s.arg)[1] = NoneValue THEN st.rc.context
                      ELSE Unwrap(s.arg)]
            ELSE IF s.name = "end with"
                 THEN [st.rc EXCEPT !.context = Unwrap(st.saved)]
                 ELSE IF s.name = "sns.set_style"
                      THEN [st.rc EXCEPT !.style = Unwrap(s.arg)]
                      ELSE st.rc]

\* the exception s leaves the call with: a with block it leaves puts the
\* styling context back
Raised(s, st) ==
    [raised |-> s.raised,
     msg |-> Some([stage |-> IF s.kind = "check" THEN "validation"
                             ELSE "drawing",
                   origin |-> s.origin, names |-> s.names,
                   reports |-> s.reports]),
     trace |-> st.trace, drawn |-> st.drawn, saved |-> None,
     rc |-> IF st.saved = None THEN st.rc
            ELSE [st.rc EXCEPT !.context = Unwrap(st.saved)]]

RECURSIVE Exec(_, _, _)
\* the statements of a body from the k-th on, run until one raises
Exec(stmts, k, st) ==
    IF k > Len(stmts) THEN st
    ELSE IF stmts[k].kind = "effect"
         THEN Exec(stmts, k + 1, Apply(stmts[k], st))
         ELSE IF stmts[k].raised = "none"
              THEN Exec(stmts, k + 1, st)
              ELSE Raised(stmts[k], st)

\* a call of a body under the styling state style
Call(stmts, style) ==
    Exec(stmts, 1, [raised |-> "none", msg |-> None, trace |-> << >>,
                    drawn |-> << >>, saved |-> None, rc |-> style])

----------------------------------------------------------------------------
(* Specification SpecValidate: one call of a public plotting function on   *)
(* arguments that differ from the defaults in at most MaxDeviations places *)

MaxDeviations == 2

PublicFunctions ==
    {"heatmap", "gridplot", "pairplot", "pairplot_with_gmm", "degreeplot",
     "edgeplot", "networkplot", "screeplot"}

AList == <<"list", <<"a", "b">>>>

\* the defaults of the signatures (lines 156-176, 365-382, 541-556,
\* 768-781, 1027-1036, 1096-1105, 1164-1185, 1402-1410); X, gmm, x and y
\* have none and get a valid value
Defaults(f) ==
    CASE f = "heatmap" ->
           [figsize |-> <<"tuple", 2>>, title |-> NoneValue,
            context |-> <<"str", "talk">>, font_scale |-> <<"int", 1>>,
            hier_label_fontsize |-> <<"int", 30>>, title_pad |-> NoneValue,
            xticklabels |-> <<"bool", FALSE>>,
            yticklabels |-> <<"bool", FALSE>>,
            cmap |-> <<"str", "RdBu_r">>, center |-> <<"int", 0>>,
            cbar |-> <<"bool", TRUE>>, transform |-> NoneValue]
      [] f = "gridplot" ->
           [height |-> <<"int", 10>>, title |-> NoneValue,
            context |-> <<"str", "talk">>, font_scale |-> <<"int", 1>>,
            hier_label_fontsize |-> <<"int", 30>>, title_pad |-> NoneValue,
            X |-> AList, labels |-> NoneValue, transform |-> NoneValue]
      [] f = "pairplot" ->
           [height |-> <<"float", 2>>, title |-> NoneValue,
            context |-> <<"str", "talk">>, font_scale |-> <<"int", 1>>,
            legend_name |-> NoneValue, X |-> <<"ndarray", 2>>,
            labels |-> NoneValue, col_names |-> NoneValue,
            variables |-> NoneValue]
      [] f = "pairplot_with_gmm" ->
           [context |-> <<"str", "talk">>, font_scale |-> <<"int", 1>>,
            labels |-> NoneValue, gmm |-> <<"GaussianMixture", 2>>,
            cluster_palette |-> <<"str", "Set1">>,
            label_palette |-> <<"str", "Set1">>, legend_name |-> NoneValue]
      [] f = "degreeplot" ->
           [figsize |-> <<"tuple", 2>>, title |-> <<"str", "Degree plot">>,
            context |-> <<"str", "talk">>, font_scale |-> <<"int", 1>>,
            direction |-> <<"str", "out">>]
      [] f = "edgeplot" ->
           [figsize |-> <<"tuple", 2>>, title |-> <<"str", "Edge plot">>,
            context |-> <<"str", "talk">>, font_scale |-> <<"int", 1>>]
      [] f = "networkplot" ->
           [figsize |-> <<"tuple", 2>>, title |-> <<"str", "">>,
            context |-> <<"str", "talk">>, font_scale |-> <<"float", 1>>,
            x |-> <<"ndarray", 2>>, y |-> <<"ndarray", 2>>,
            node_data |-> NoneValue, node_hue |-> NoneValue]
      [] f = "screeplot" ->
           [figsize |-> <<"tuple", 2>>, title |-> <<"str", "Scree plot">>,
            context |-> <<"str", "talk">>, font_scale |-> <<"int", 1>>,
            cumulative |-> <<"bool", TRUE>>, show_first |-> NoneValue]

Lists ==
    {AList, <<"list", <<"a", "z">>>>, <<"list", <<"a", "b", "z">>>>,
     <<"list", <<"a">>>>}

Scalars ==
    {NoneValue, <<"str", "talk">>, <<"str", "bogus">>, <<"int", 1>>,
     <<"bool", TRUE>>, AList}

\* the values an argument is given.  networkplot is decorated with
\* beartype (line 1163), so its body runs on values of the annotated types
\* only; pairplot_with_gmm validates nothing but labels, gmm and the
\* palettes, and reads the palettes as names when there are no labels
Candidates(f, p) ==
    IF f = "networkplot"
    THEN CASE p \in {"x", "y"} ->
                {<<"ndarray", 2>>, <<"ndarray", 3>>, <<"str", "col">>}
           [] p = "node_data" ->
                {NoneValue, <<"DataFrame", 2>>, <<"DataFrame", 3>>}
           [] p = "node_hue" ->
                {NoneValue, <<"ndarray", 2>>, <<"ndarray", 3>>,
                 <<"str", "col">>}
           [] p = "context" -> {<<"str", "talk">>, <<"str", "bogus">>}
           [] OTHER -> {Defaults(f)[p]}
    ELSE CASE p \in {"xticklabels", "yticklabels", "labels", "col_names"} ->
                {NoneValue, <<"bool", TRUE>>, <<"int", 1>>} \cup Lists
           [] p = "variables" -> {NoneValue} \cup Lists
           [] p = "X" ->
                {Defaults(f)[p], <<"int", 1>>, <<"list", <<"a">>>>}
                    \ (IF f = "pairplot" THEN Lists ELSE {})
           [] p = "gmm" -> {NoneValue, Defaults(f)[p]}
           [] p \in {"cluster_palette", "label_palette"} ->
                {<<"str", "Set1">>, <<"dict", 2>>, <<"int", 1>>, AList}
           [] p = "legend_name" /\ f = "pairplot_with_gmm" ->
                {NoneValue, <<"str", "talk">>}
           [] p \in {"context", "font_scale"}
                  /\ f = "pairplot_with_gmm" -> {Defaults(f)[p]}
           [] p = "direction" ->
                {<<"str", "out">>, <<"str", "in">>, <<"str", "both">>}
           [] p = "transform" ->
                {NoneValue, <<"str", "log">>, <<"str", "bogus">>,
                 <<"int", 1>>}
           [] OTHER -> Scalars

AllCandidates(f) ==
    UNION {Candidates(f, p) : p \in DOMAIN Defaults(f)}

\* the styling states a call is made under
Styles ==
    {[context |-> <<<<"str", "notebook">>, <<"int", 1>>>>, style |-> s] :
         s \in {"darkgrid", "white"}}

InitValidate ==
    /\ pc = "call"
    /\ entry \in PublicFunctions
    /\ \E D \in SUBSET (DOMAIN Defaults(entry)) :
         /\ Cardinality(D) <= MaxDeviations
         /\ \E given \in [D -> AllCandidates(entry)] :
              /\ \A p \in D : given[p] \in Candidates(entry, p)
              /\ kwargs = [p \in DOMAIN Defaults(entry) |->
                              IF p \in D THEN given[p]
                              ELSE Defaults(entry)[p]]
    /\ (entry = "pairplot_with_gmm" /\ kwargs.labels = NoneValue) =>
           /\ kwargs.cluster_palette = Defaults(entry).cluster_palette
           /\ kwargs.label_palette = Defaults(entry).label_palette
    /\ \E style \in Styles : rc = [before |-> style, now |-> style]
    /\ raised = "none" /\ msg = None /\ trace = << >> /\ plot = << >>
    /\ X = Unused /\ inner_hier_labels = Unused
    /\ outer_hier_labels = Unused /\ sort_nodes = Unused
    /\ transform = Unused /\ heap = Unused /\ arr = 0
    /\ labels = Unused /\ direction = Unused /\ imported = Unused
    /\ inner_arr = Unused /\ outer_arr = Unused /\ inds = Unused
    /\ sorted_graph = Unused /\ resorted_inds = Unused
    /\ vals = Unused /\ uniq = Unused /\ freqs = Unused
    /\ P = Unused /\ reindexed = Unused /\ restored = Unused

\* the call has ended with the outcome r
Ends(r) ==
    /\ raised' = r.raised
    /\ msg' = r.msg
    /\ trace' = r.trace
    /\ plot' = r.drawn
    /\ rc' = [rc EXCEPT !.now = r.rc]
    /\ pc' = "done"
    /\ UNCHANGED <<X, inner_hier_labels, outer_hier_labels, sort_nodes,
                   inner_arr, outer_arr, inds, sorted_graph, resorted_inds,
                   vals, uniq, freqs, P, reindexed, restored, transform,
                   heap, arr, entry, labels, direction, imported, kwargs>>

CallHeatmap ==
    pc = "call" /\ entry = "heatmap" /\ Ends(Call(heatmap_body(kwargs), rc.now))

CallGridplot ==
    pc = "call" /\ entry = "gridplot"
        /\ Ends(Call(gridplot_body(kwargs), rc.now))

CallPairplot ==
    pc = "call" /\ entry = "pairplot"
        /\ Ends(Call(pairplot_body(kwargs), rc.now))

CallPairplotWithGmm ==
    pc = "call" /\ entry = "pairplot_with_gmm"
        /\ Ends(Call(pairplot_with_gmm_body(kwargs), rc.now))

CallDegreeplot ==
    pc = "call" /\ entry = "degreeplot"
        /\ Ends(Call(degreeplot_body(kwargs), rc.now))

CallEdgeplot ==
    pc = "call" /\ entry = "edgeplot"
        /\ Ends(Call(edgeplot_body(kwargs), rc.now))

CallNetworkplot ==
    pc = "call" /\ entry = "networkplot"
        /\ Ends(Call(networkplot_body(kwargs), rc.now))

CallScreeplot ==
    pc = "call" /\ entry = "screeplot"
        /\ Ends(Call(screeplot_body(kwargs), rc.now))

NextValidate ==
    CallHeatmap \/ CallGridplot \/ CallPairplot \/ CallPairplotWithGmm
        \/ CallDegreeplot \/ CallEdgeplot \/ CallNetworkplot
        \/ CallScreeplot

SpecValidate == InitValidate /\ [][NextValidate]_vars

----------------------------------------------------------------------------
(* Properties of the argument validation (specification SpecValidate) *)

\* the call ended with an exception of one of its argument checks
Rejected == Done /\ msg # None /\ Unwrap(msg).stage = "validation"

C22_MessageReportsOffender ==
    (Rejected /\ Unwrap(msg).origin = "plot.py") =>
        /\ Unwrap(msg).names \in DOMAIN kwargs
        /\ \/ Unwrap(msg).reports = TypeReport(kwargs[Unwrap(msg).names])
           \/ Unwrap(msg).reports = ValueReport(kwargs[Unwrap(msg).names])

\* C23: after the call has returned or raised, the process-wide styling
\* state (context preset, font scale and style) is what it was before.
C23_StylingRestored ==
    Done => rc.now = rc.before

\* pairplot reaches the check of variables: the other arguments are the
\* defaults and col_names is None or names the columns of X
VariablesReached ==
    /\ Done /\ entry = "pairplot"
    /\ \A p \in DOMAIN kwargs \ {"col_names", "variables"} :
           kwargs[p] = Defaults("pairplot")[p]
    /\ \/ kwargs.col_names = NoneValue
       \/ /\ TypeOf(kwargs.col_names) = "list"
          /\ Len(ValueOf(kwargs.col_names)) = XShape[2]

\* the names a variable is looked up in
KnownColumns ==
    IF kwargs.col_names = NoneValue
    THEN {"Dimension 1", "Dimension 2"}
    ELSE Range(ValueOf(kwargs.col_names))

TooManyVariables ==
    /\ kwargs.variables # NoneValue
    /\ Len(ValueOf(kwargs.variables)) > Cardinality(KnownColumns)

UnknownVariable ==
    /\ kwargs.variables # NoneValue
    /\ \E k \in 1..Len(ValueOf(kwargs.variables)) :
           ValueOf(kwargs.variables)[k] \notin KnownColumns

\* C24: pairplot raises ValueError when variables has more elements than
\* col_names, also when one of them is no column name, and KeyError when
\* variables is not longer than col_names and holds a name that is not
\* among col_names; with variables None it plots every column.
C24_VariablesChecked ==
    VariablesReached =>
        /\ TooManyVariables => raised = "ValueError"
        /\ (UnknownVariable /\ ~TooManyVariables) => raised = "KeyError"
        /\ kwargs.variables = NoneValue =>
               /\ raised = "none"
               /\ Len(plot) = 1
               /\ plot[1].name = "sns.pairplot"
               /\ Range(Unwrap(plot[1].arg)) = KnownColumns

\* a case of C24: variables is longer than col_names and holds an unknown
\* name, and ValueError is raised
C24_Witness ==
    /\ VariablesReached /\ TooManyVariables /\ UnknownVariable
    /\ raised = "ValueError"

\* pairplot_with_gmm drew its legend
LegendDrawn ==
    /\ Done /\ entry = "pairplot_with_gmm" /\ raised = "none"
    /\ \E k \in 1..Len(plot) : plot[k].name = "fig.legend"

\* the title of the legend drawn
LegendTitle ==
    Unwrap(plot[CHOOSE k \in 1..Len(plot) : plot[k].name = "fig.legend"].arg)

\* C25: the legend of pairplot_with_gmm is titled with the caller's
\* legend_name whenever one is given; with legend_name None the title is
\* "Cluster" when no labels are passed and "" when labels are passed.
C25_LegendTitle ==
    LegendDrawn =>
        IF kwargs.legend_name # NoneValue
        THEN LegendTitle = kwargs.legend_name
        ELSE IF kwargs.labels = NoneValue
             THEN LegendTitle = <<"str", "Cluster">>
             ELSE LegendTitle = <<"str", "">>

\* pairplot_with_gmm is called with a model and with labels that fit X
LabelsSupplied ==
    /\ Done /\ entry = "pairplot_with_gmm"
    /\ kwargs.gmm # NoneValue
    /\ TypeOf(kwargs.labels) = "list"
    /\ Len(ValueOf(kwargs.labels)) = XShape[1]

\* C30: with labels supplied, pairplot_with_gmm raises ValueError before
\* drawing when label_palette is neither a string nor a dict, and likewise
\* when cluster_palette is neither a string nor a dict.
C30_PaletteRejected ==
    LabelsSupplied =>
        /\ ~IsInstance(kwargs.label_palette, {"str", "dict"}) =>
               raised = "ValueError" /\ plot = << >>
        /\ ~IsInstance(kwargs.cluster_palette, {"str", "dict"}) =>
               raised = "ValueError" /\ plot = << >>

====
